---- MODULE Spec2Model ----
(***************************************************************************)
(* A model of src/inference.py: the feature extractor                      *)
(* (get_universal_features .. compile_feature_vector), the predictor       *)
(* (get_prediction) and the compression benchmark runner                   *)
(* (run_single_compression, run_full_benchmark).                           *)
(*                                                                         *)
(* Representation.                                                         *)
(*  - A string is a sequence of one-character strings.                     *)
(*  - A file's bytes are kept run-length encoded: a sequence of runs        *)
(*    [b |-> byte, n |-> count], n >= 1, so that a file of 50 MiB is one   *)
(*    value.  Everything that reads a file walks the runs.                 *)
(*  - A Python number (int or float) is a fraction [num, den], den > 0.    *)
(*    c / file_size is the fraction c over file_size; math.log2 is a       *)
(*    fixed-point binary logarithm (log2), FracBits fractional bits.       *)
(***************************************************************************)
EXTENDS Integers, Sequences, FiniteSets, TLC

\* ------------------------------------------------------------------ bounds
\* Largest input file, in bytes, the benchmark runner is tried on.
MaxInputSize == 2
\* Longest run of one byte value in the file contents tried.
MaxRunLen == 2
\* Mantissa and fraction bits of the fixed-point logarithm.
MantBits == 12
FracBits == 8

\* --------------------------------------------------------------- constants
\* f.read(1024 * 1024)
CHUNK == 1048576
\* 50 * 1024 * 1024
MAX_SIZE == 52428800
\* range(256)
NBYTES == 256
\* the length of stat_features
NSTATS == 12
\* subprocess.run(..., timeout=60)
TIMEOUT == 60

\* ----------------------------------------------------------------- strings
UpperChars ==
  <<"A","B","C","D","E","F","G","H","I","J","K","L","M",
    "N","O","P","Q","R","S","T","U","V","W","X","Y","Z">>
LowerChars ==
  <<"a","b","c","d","e","f","g","h","i","j","k","l","m",
    "n","o","p","q","r","s","t","u","v","w","x","y","z">>

\* The lower-case letter of each upper-case letter, and the converse.
LowerOf ==
  [c \in {UpperChars[i] : i \in 1..26} |->
     LowerChars[CHOOSE i \in 1..26 : UpperChars[i] = c]]
UpperOf ==
  [c \in {LowerChars[i] : i \in 1..26} |->
     UpperChars[CHOOSE i \in 1..26 : LowerChars[i] = c]]

lower_char(c) == IF c \in DOMAIN LowerOf THEN LowerOf[c] ELSE c

upper_char(c) == IF c \in DOMAIN UpperOf THEN UpperOf[c] ELSE c

\* str.lower()
lower(s) == [i \in 1..Len(s) |-> lower_char(s[i])]

\* str.upper()
upper(s) == [i \in 1..Len(s) |-> upper_char(s[i])]

\* str.rfind(c), 1-based; 0 when c does not occur (Python's -1)
rfind(s, c) ==
  IF \E i \in 1..Len(s) : s[i] = c
  THEN CHOOSE i \in 1..Len(s) : s[i] = c /\ \A j \in (i+1)..Len(s) : s[j] # c
  ELSE 0

\* os.path.splitext(p): <<root, ext>>.  The extension starts at the last dot
\* of the last path component, unless only dots precede it there.
splitext(p) ==
  LET sepIndex == rfind(p, "/")
      dotIndex == rfind(p, ".")
  IN  IF dotIndex > sepIndex
         /\ \E i \in (sepIndex + 1)..(dotIndex - 1) : p[i] # "."
      THEN <<SubSeq(p, 1, dotIndex - 1), SubSeq(p, dotIndex, Len(p))>>
      ELSE <<p, <<>>>>

\* str.strip("."): leading and trailing dots removed
strip(s) ==
  LET kept == {i \in DOMAIN s : s[i] # "."}
  IN  IF kept = {}
      THEN <<>>
      ELSE SubSeq(s, CHOOSE i \in kept : \A j \in kept : i <= j,
                     CHOOSE i \in kept : \A j \in kept : j <= i)

\* os.path.basename(p)
basename(p) == SubSeq(p, rfind(p, "/") + 1, Len(p))

\* ----------------------------------------------------------------- numbers
Whole(n) == [num |-> n, den |-> 1]
Frac(a, b) == [num |-> a, den |-> b]
Zero == Whole(0)
One == Whole(1)
IsZero(x) == x.num = 0
IsPos(x) == x.num > 0
NumEq(x, y) == x.num * y.den = y.num * x.den
Neg(x) == [num |-> 0 - x.num, den |-> x.den]
Add(x, y) ==
  IF x.den = y.den THEN [num |-> x.num + y.num, den |-> x.den]
  ELSE [num |-> x.num * y.den + y.num * x.den, den |-> x.den * y.den]

RECURSIVE Pow2(_)
Pow2(k) == IF k = 0 THEN 1 ELSE 2 * Pow2(k - 1)

\* -------------------------------------------------------------- file bytes
RECURSIVE SumRuns(_)
SumRuns(data) == IF data = <<>> THEN 0 ELSE Head(data).n + SumRuns(Tail(data))

\* os.path.getsize(file_path) of an existing file
getsize(f) == SumRuns(f.data)

\* The first n bytes of data: what f.read(n) returns.
RECURSIVE take(_, _)
take(data, n) ==
  IF n = 0 \/ data = <<>> THEN <<>>
  ELSE LET r == Head(data)
       IN  IF r.n <= n THEN <<r>> \o take(Tail(data), n - r.n)
           ELSE <<[b |-> r.b, n |-> n]>>

\* What is left of data after f.read(n).
RECURSIVE drop(_, _)
drop(data, n) ==
  IF n = 0 \/ data = <<>> THEN data
  ELSE LET r == Head(data)
       IN  IF r.n <= n THEN drop(Tail(data), n - r.n)
           ELSE <<[b |-> r.b, n |-> r.n - n]>> \o Tail(data)

\* How often byte b occurs in a chunk.
RECURSIVE count_in(_, _)
count_in(chunk, b) ==
  IF chunk = <<>> THEN 0
  ELSE (IF Head(chunk).b = b THEN Head(chunk).n ELSE 0) + count_in(Tail(chunk), b)

\* Counter.get(b, 0)
counter_get(counts, b) == IF b \in DOMAIN counts THEN counts[b] ELSE 0

\* Counter.update(chunk): a Counter has a key for every byte seen, no other.
counter_update(counts, chunk) ==
  [b \in DOMAIN counts \cup {chunk[i].b : i \in 1..Len(chunk)} |->
     counter_get(counts, b) + count_in(chunk, b)]

\* while chunk := f.read(1024 * 1024): counts.update(chunk)
\* (The test of updated makes TLC evaluate the Counter chunk by chunk, not as
\* one nested expression at the end of a long file.)
RECURSIVE read_chunks(_, _)
read_chunks(data, counts) ==
  LET chunk == take(data, CHUNK)
      updated == counter_update(counts, chunk)
  IN  IF chunk = <<>> THEN counts
      ELSE IF updated = <<>> THEN updated
      ELSE read_chunks(drop(data, CHUNK), updated)

\* ----------------------------------------------------------- math.log2
\* The largest k with c * 2^k <= n, for 1 <= c <= n.
RECURSIVE ilog(_, _)
ilog(c, n) == IF 2 * c <= n THEN 1 + ilog(2 * c, n) ELSE 0

\* bits fractional bits of r / d, for 0 <= r < d, by long division.
RECURSIVE fdiv(_, _, _)
fdiv(r, d, bits) ==
  IF bits = 0 THEN 0
  ELSE IF 2 * r >= d THEN Pow2(bits - 1) + fdiv(2 * r - d, d, bits - 1)
       ELSE fdiv(2 * r, d, bits - 1)

\* bits fractional bits of log2(m / 2^MantBits), for 1 <= m / 2^MantBits < 2,
\* by repeated squaring.
RECURSIVE fracbits(_, _)
fracbits(m, bits) ==
  IF bits = 0 THEN 0
  ELSE LET sq == (m * m) \div Pow2(MantBits)
       IN  IF sq >= Pow2(MantBits + 1)
           THEN Pow2(bits - 1) + fracbits(sq \div 2, bits - 1)
           ELSE fracbits(sq, bits - 1)

\* math.log2(x) for a fraction 0 < x <= 1, as a multiple of 2^-FracBits.
log2(x) ==
  LET k == ilog(x.num, x.den)
      d == x.num * Pow2(k)
      m == Pow2(MantBits) + fdiv(x.den - d, d, MantBits)
  IN  Frac(0 - (k * Pow2(FracBits) + fracbits(m, FracBits)), Pow2(FracBits))

\* p * math.log2(p), kept as a multiple of 2^-FracBits.
plogp(p) == Frac((p.num * log2(p).num) \div p.den, Pow2(FracBits))

\* sum((c / file_size) * math.log2(c / file_size) for c in counts.values()),
\* over the keys of the Counter still to be added.
RECURSIVE sum_terms(_, _, _)
sum_terms(counts, keys, file_size) ==
  IF keys = {} THEN Zero
  ELSE LET b == CHOOSE x \in keys : \A y \in keys : x <= y
       IN  Add(plogp(Frac(counts[b], file_size)),
               sum_terms(counts, keys \ {b}, file_size))

\* ------------------------------------------------- get_universal_features
ZeroDist == [i \in 0..(NBYTES - 1) |-> Zero]

\* A slip: the probabilities taken over file_size + 1.
entropy_of_off_by_one(counts, file_size) ==
  IF file_size > 0 THEN Neg(sum_terms(counts, DOMAIN counts, file_size + 1))
  ELSE Zero

\* The entropy expression: one term for every value of the Counter.
entropy_of(counts, file_size) ==
  IF file_size > 0 THEN Neg(sum_terms(counts, DOMAIN counts, file_size))
  ELSE Zero

\* A slip: range(255), the last byte value left out.
byte_dist_of_short(counts, file_size) ==
  [i \in 0..(NBYTES - 1) |->
     IF i < NBYTES - 1 THEN Frac(counter_get(counts, i), file_size)
     ELSE Frac(0, file_size)]

\* byte_dist = {i: counts.get(i, 0) / file_size for i in range(256)}
byte_dist_of(counts, file_size) ==
  [i \in 0..(NBYTES - 1) |-> Frac(counter_get(counts, i), file_size)]

\* get_universal_features(file_path): <<file_size, entropy, byte_dist>>.
\* A file that does not exist makes getsize raise and one that cannot be read
\* makes open raise; both end in the except branch.
get_universal_features(f) ==
  IF ~f.exists THEN <<0, Zero, ZeroDist>>
  ELSE LET file_size == getsize(f)
       IN  IF file_size = 0 THEN <<0, Zero, ZeroDist>>
           ELSE IF ~f.readable THEN <<0, Zero, ZeroDist>>
           ELSE LET counts == read_chunks(f.data, <<>>)
                IN  <<file_size, entropy_of(counts, file_size),
                      byte_dist_of(counts, file_size)>>

\* ------------------------------------------------------ get_text_features
\* open(..., encoding="utf-8", errors="ignore"): the file contents tried hold
\* ASCII bytes and 0xFF only; 0xFF is no part of any UTF-8 sequence and is
\* dropped, an ASCII byte is its own character.
RECURSIVE decode(_)
decode(data) ==
  IF data = <<>> THEN <<>>
  ELSE IF Head(data).b < 128 THEN <<Head(data)>> \o decode(Tail(data))
       ELSE decode(Tail(data))

NEWLINE == 10
SPACE == 32
IsSpaceChar(b) == b \in {9, NEWLINE, 11, 12, 13, SPACE}

\* readlines() and sum(len(l.strip()) for l in lines), one run at a time.
\* st: total is the sum over the lines closed so far, lines their number;
\* open says the line being read holds a character, inner is the length of
\* its text from the first to the last character that is no white space, and
\* pending the white space read since.
RECURSIVE scan_lines(_, _)
scan_lines(chars, st) ==
  IF chars = <<>>
  THEN IF st.open
       THEN [st EXCEPT !.total = st.total + st.inner, !.lines = st.lines + 1]
       ELSE st
  ELSE LET r == Head(chars)
       IN  IF r.b = NEWLINE
           THEN scan_lines(Tail(chars),
                  [total |-> st.total + st.inner, lines |-> st.lines + r.n,
                   open |-> FALSE, inner |-> 0, pending |-> 0])
           ELSE IF IsSpaceChar(r.b)
           THEN scan_lines(Tail(chars),
                  [st EXCEPT !.open = TRUE,
                             !.pending = IF st.inner > 0 THEN st.pending + r.n
                                         ELSE 0])
           ELSE scan_lines(Tail(chars),
                  [st EXCEPT !.open = TRUE,
                             !.inner = st.inner + st.pending + r.n,
                             !.pending = 0])

\* get_text_features(file_path)
get_text_features(f) ==
  IF ~f.exists \/ ~f.readable THEN Zero
  ELSE LET st == scan_lines(decode(f.data),
                   [total |-> 0, lines |-> 0, open |-> FALSE,
                    inner |-> 0, pending |-> 0])
       IN  IF st.lines > 0 THEN Frac(st.total, st.lines) ELSE Zero

\* ------------------------------------ get_image/audio/pdf_features
\* What Image.open, AudioSegment.from_wav and fitz.open make of a file is
\* theirs to decide: lib is one outcome of each.
LibOutcomes ==
  { [image |-> [ok |-> FALSE, w |-> 0, h |-> 0, bands |-> 0],
     audio |-> [ok |-> FALSE, ms |-> 0, frame_rate |-> 0, channels |-> 0,
                sample_width |-> 0],
     pdf   |-> [ok |-> FALSE, page_count |-> 0]],
    [image |-> [ok |-> TRUE, w |-> 2, h |-> 1, bands |-> 3],
     audio |-> [ok |-> TRUE, ms |-> 1500, frame_rate |-> 44100, channels |-> 2,
                sample_width |-> 2],
     pdf   |-> [ok |-> TRUE, page_count |-> 2]],
    [image |-> [ok |-> TRUE, w |-> 1, h |-> 1, bands |-> 1],
     audio |-> [ok |-> TRUE, ms |-> 0, frame_rate |-> 8000, channels |-> 1,
                sample_width |-> 1],
     pdf   |-> [ok |-> TRUE, page_count |-> 0]] }

\* get_image_features(file_path): <<width, height, bands, 8>>
get_image_features(f, lib) ==
  IF f.exists /\ f.readable /\ lib.image.ok
  THEN <<Whole(lib.image.w), Whole(lib.image.h), Whole(lib.image.bands), Whole(8)>>
  ELSE <<Zero, Zero, Zero, Zero>>

\* get_audio_features(file_path)
get_audio_features(f, lib, pydub) ==
  IF ~pydub THEN <<Zero, Zero, Zero, Zero>>
  ELSE IF f.exists /\ f.readable /\ lib.audio.ok
  THEN <<Frac(lib.audio.ms, 1000), Whole(lib.audio.frame_rate),
         Whole(lib.audio.channels), Whole(lib.audio.sample_width * 8)>>
  ELSE <<Zero, Zero, Zero, Zero>>

\* get_pdf_features(file_path)
get_pdf_features(f, lib, pymupdf) ==
  IF ~pymupdf THEN Zero
  ELSE IF f.exists /\ f.readable /\ lib.pdf.ok THEN Whole(lib.pdf.page_count)
  ELSE Zero

\* ------------------------------------------------- compile_feature_vector
TextExts == { <<"t","x","t">>, <<"c","s","v">>, <<"j","s","o","n">> }
PdfExt == <<"p","d","f">>
ImageExts == { <<"j","p","g">>, <<"j","p","e","g">>, <<"p","n","g">> }
WavExt == <<"w","a","v">>

\* ext = os.path.splitext(file_path)[1].lower().strip(".")
ext_of(path) == strip(lower(splitext(path)[2]))

\* f"{x:.<digits>f}": x in units of 10^-digits, rounded half to even.
RECURSIVE Pow10(_)
Pow10(k) == IF k = 0 THEN 1 ELSE 10 * Pow10(k - 1)

round_half_even(a, b) ==
  LET q == a \div b
      r == a % b
  IN  IF 2 * r > b \/ (2 * r = b /\ q % 2 = 1) THEN q + 1 ELSE q

fmt(x, digits) ==
  LET q == x.num \div x.den
      r == x.num % x.den
  IN  q * Pow10(digits) + round_half_even(r * Pow10(digits), x.den)

\* A slip: no dispatch on the extension, every extractor asked.
type_features_all(f, ext, lib, caps) ==
  LET i == get_image_features(f, lib)
      a == get_audio_features(f, lib, caps.PYDUB_AVAILABLE)
  IN  [all |-> get_text_features(f),
       pc |-> get_pdf_features(f, lib, caps.PYMUPDF_AVAILABLE),
       w |-> i[1], h |-> i[2], ci |-> i[3], bdi |-> i[4],
       ds |-> a[1], sr |-> a[2], ca |-> a[3], bda |-> a[4]]

\* The ten type-specific values (all, pc, w, h, ci, bdi, ds, sr, ca, bda):
\* zero, but for the group of the extension's class.
type_features(f, ext, lib, caps) ==
  LET z == [all |-> Zero, pc |-> Zero, w |-> Zero, h |-> Zero, ci |-> Zero,
            bdi |-> Zero, ds |-> Zero, sr |-> Zero, ca |-> Zero, bda |-> Zero]
  IN  IF ext \in TextExts THEN [z EXCEPT !.all = get_text_features(f)]
      ELSE IF ext = PdfExt
      THEN [z EXCEPT !.pc = get_pdf_features(f, lib, caps.PYMUPDF_AVAILABLE)]
      ELSE IF ext \in ImageExts
      THEN LET i == get_image_features(f, lib)
           IN  [z EXCEPT !.w = i[1], !.h = i[2], !.ci = i[3], !.bdi = i[4]]
      ELSE IF ext = WavExt
      THEN LET a == get_audio_features(f, lib, caps.PYDUB_AVAILABLE)
           IN  [z EXCEPT !.ds = a[1], !.sr = a[2], !.ca = a[3], !.bda = a[4]]
      ELSE z

\* The extractors compile_feature_vector calls for a file of extension ext.
calls_of(ext) ==
  {"get_universal_features"}
  \cup (IF ext \in TextExts THEN {"get_text_features"}
        ELSE IF ext = PdfExt THEN {"get_pdf_features"}
        ELSE IF ext \in ImageExts THEN {"get_image_features"}
        ELSE IF ext = WavExt THEN {"get_audio_features"}
        ELSE {})

\* The error raised inside the try block of an extractor, "none" if none is:
\* the file cannot be opened, or the library cannot make sense of it.
error_in(extractor, f, lib, caps) ==
  LET closed == ~f.exists \/ ~f.readable
  IN  CASE extractor = "get_universal_features" ->
             IF ~f.exists \/ (getsize(f) > 0 /\ ~f.readable) THEN "OSError"
             ELSE "none"
        [] extractor = "get_text_features" ->
             IF closed THEN "OSError" ELSE "none"
        [] extractor = "get_image_features" ->
             IF closed THEN "OSError"
             ELSE IF ~lib.image.ok THEN "UnidentifiedImageError" ELSE "none"
        [] extractor = "get_audio_features" ->
             IF ~caps.PYDUB_AVAILABLE THEN "none"
             ELSE IF closed THEN "OSError"
             ELSE IF ~lib.audio.ok THEN "CouldntDecodeError" ELSE "none"
        [] extractor = "get_pdf_features" ->
             IF ~caps.PYMUPDF_AVAILABLE THEN "none"
             ELSE IF closed THEN "OSError"
             ELSE IF ~lib.pdf.ok THEN "FileDataError" ELSE "none"

\* A slip: except OSError, the libraries' own errors let through.
absorbed_os_error_only(exc) == exc = "OSError"

\* except Exception, in each of the five extractors: the zero values returned.
absorbed(exc) ==
  exc \in {"OSError", "UnidentifiedImageError", "CouldntDecodeError", "FileDataError"}

\* The errors that leave compile_feature_vector.
errors_of(f, lib, caps) ==
  {e \in {error_in(x, f, lib, caps) : x \in calls_of(ext_of(f.path))} :
     e # "none" /\ ~absorbed(e)}

\* A slip: the text and the PDF slot exchanged.
stat_features_swapped(u, t) ==
  <<Whole(u[1]), u[2], t.pc, t.all, t.w, t.h, t.ci, t.bdi, t.ds, t.sr, t.ca, t.bda>>

\* stat_features = [fs, ent, all, pc, w, h, ci, bdi, ds, sr, ca, bda]
stat_features(u, t) ==
  <<Whole(u[1]), u[2], t.all, t.pc, t.w, t.h, t.ci, t.bdi, t.ds, t.sr, t.ca, t.bda>>

\* byte_features = [bd.get(i, 0) for i in range(256)]
byte_features(bd) == [k \in 1..NBYTES |-> bd[k - 1]]

\* A slip: the duration shown when there is a sample rate.
insights_of_by_samplerate(ext, u, t) ==
  LET keys == {"File Type", "File Size (KB)", "Shannon Entropy"}
              \cup (IF IsPos(t.sr) THEN {"Duration (s)"} ELSE {})
              \cup (IF IsPos(t.w) THEN {"Dimensions"} ELSE {})
              \cup (IF IsPos(t.pc) THEN {"Page Count"} ELSE {})
  IN  [k \in keys |->
         CASE k = "File Type" -> upper(ext)
           [] k = "File Size (KB)" -> <<fmt(Frac(u[1], 1024), 2)>>
           [] k = "Shannon Entropy" -> <<fmt(u[2], 4)>>
           [] k = "Duration (s)" -> <<fmt(t.ds, 2)>>
           [] k = "Dimensions" -> <<t.w.num, t.h.num>>
           [] k = "Page Count" -> <<t.pc.num>>]

\* The insights mapping: its keys, and the value under each.
insights_of(ext, u, t) ==
  LET keys == {"File Type", "File Size (KB)", "Shannon Entropy"}
              \cup (IF IsPos(t.ds) THEN {"Duration (s)"} ELSE {})
              \cup (IF IsPos(t.w) THEN {"Dimensions"} ELSE {})
              \cup (IF IsPos(t.pc) THEN {"Page Count"} ELSE {})
  IN  [k \in keys |->
         CASE k = "File Type" -> upper(ext)
           [] k = "File Size (KB)" -> <<fmt(Frac(u[1], 1024), 2)>>
           [] k = "Shannon Entropy" -> <<fmt(u[2], 4)>>
           [] k = "Duration (s)" -> <<fmt(t.ds, 2)>>
           [] k = "Dimensions" -> <<t.w.num, t.h.num>>
           [] k = "Page Count" -> <<t.pc.num>>]

\* compile_feature_vector(file_path): [raw_features, insights]
compile_feature_vector(f, lib, caps) ==
  LET ext == ext_of(f.path)
      u == get_universal_features(f)
      t == type_features(f, ext, lib, caps)
  IN  [raw_features |-> stat_features(u, t) \o byte_features(u[3]),
       insights |-> insights_of(ext, u, t)]

\* ================================================================== state
VARIABLES
  caps,     \* PYDUB_AVAILABLE and PYMUPDF_AVAILABLE, set when the module loads
  feat_in,  \* the feature extractor's input: the file, and what the libraries make of it
  guf,      \* get_universal_features(feat_in.file): called, and what it returned
  cfv,      \* compile_feature_vector(feat_in.file): called, and what it returned
  gp_in,    \* get_prediction's arguments, and what the libraries make of the file
  gp,       \* the get_prediction call: where it is, its locals, what it has called
  disk,     \* per session: the input file the caller passes (tmp_file_path)
  rs,       \* per session: its run_single_compression call
  tmpdir,   \* per session: the TemporaryDirectory of its run_single_compression call
  downloads,\* per tool: the file compressed_output.<tool> of the working directory
  fb        \* per session: its run_full_benchmark call

featVars == <<feat_in, guf, cfv>>
predVars == <<gp_in, gp>>
benchVars == <<disk, rs, tmpdir, downloads, fb>>

\* ----------------------------------------------------------------- inputs
Paths ==
  { <<"a",".","t","x","t">>, <<"a",".","T","X","T">>, <<"a",".","c","s","v">>,
    <<"a",".","j","s","o","n">>, <<"a",".","p","d","f">>, <<"a",".","p","n","g">>,
    <<"a",".","j","p","g">>, <<"a",".","J","p","e","g">>, <<"a",".","w","a","v">>,
    <<"a",".","W","a","v">>, <<"a",".","e","x","e">>, <<"a">>,
    <<".","t","x","t">>, <<"a",".","t","x","t",".","g","z">>,
    <<"d",".","w","a","v","/","a">>, <<"a",".">> }

\* 'A', white space, and a byte that is no UTF-8.
Bytes == {NEWLINE, SPACE, 65, 255}
Runs == [b : Bytes, n : 1..MaxRunLen]
Contents == UNION { [1..k -> Runs] : k \in {0, 1, 2} }
\* Contents longer than one chunk of the read loop.
LongContents ==
  { <<[b |-> 65, n |-> CHUNK], [b |-> NEWLINE, n |-> 1]>>,
    <<[b |-> 65, n |-> CHUNK + 1]>> }

NoFile == [path |-> <<>>, data |-> <<>>, exists |-> FALSE, readable |-> FALSE]

\* Files on disk, readable or not, and paths that name no file.
FeatureFiles ==
  [path : Paths, data : Contents, exists : {TRUE}, readable : {TRUE}]
  \cup [path : Paths, data : {c \in Contents : Len(c) <= 1}, exists : {TRUE},
        readable : {FALSE}]
  \cup [path : {<<"a",".","t","x","t">>, <<"a",".","e","x","e">>},
        data : LongContents, exists : {TRUE}, readable : {TRUE}]
  \cup [path : Paths, data : {<<>>}, exists : {FALSE}, readable : {FALSE}]

\* The files get_prediction is tried on: around the size limit, and small.
PredictContents ==
  { <<>>, <<[b |-> 65, n |-> 1]>>, <<[b |-> 65, n |-> 2], [b |-> NEWLINE, n |-> 1]>>,
    <<[b |-> 65, n |-> MAX_SIZE - 1]>>,
    <<[b |-> 65, n |-> MAX_SIZE - 1], [b |-> NEWLINE, n |-> 1]>>,
    <<[b |-> 65, n |-> MAX_SIZE]>>, <<[b |-> 65, n |-> MAX_SIZE + 1]>>,
    <<[b |-> 65, n |-> MAX_SIZE + CHUNK]>> }

PredictFiles ==
  [path : Paths, data : PredictContents, exists : {TRUE}, readable : {TRUE}]
  \cup [path : Paths, data : {<<[b |-> 65, n |-> 1]>>}, exists : {TRUE},
        readable : {FALSE}]
  \cup [path : {<<"a",".","t","x","t">>}, data : {<<>>}, exists : {FALSE},
        readable : {FALSE}]

Caps == [PYDUB_AVAILABLE : BOOLEAN, PYMUPDF_AVAILABLE : BOOLEAN]

\* ------------------------------------------------- the feature extractor
NoGuf == [called |-> FALSE, out |-> <<0, Zero, ZeroDist>>]
NoCfv == [called |-> FALSE, calls |-> {}, out |-> [raw_features |-> <<>>, insights |-> <<>>]]

\* Every file with the libraries failing; the short files with every outcome.
FeatureInputs ==
  [file : FeatureFiles, lib : {l \in LibOutcomes : ~l.image.ok}]
  \cup [file : {f \in FeatureFiles : Len(f.data) <= 1}, lib : LibOutcomes]

InitFeatures ==
  /\ feat_in \in FeatureInputs
  /\ guf = NoGuf
  /\ cfv = NoCfv

CallGetUniversalFeatures ==
  /\ ~guf.called /\ ~cfv.called
  /\ guf' = [called |-> TRUE, out |-> get_universal_features(feat_in.file)]
  /\ UNCHANGED <<caps, feat_in, cfv, gp_in, gp, benchVars>>

CallCompileFeatureVector ==
  /\ ~guf.called /\ ~cfv.called
  /\ cfv' = [called |-> TRUE, calls |-> calls_of(ext_of(feat_in.file.path)),
             out |-> compile_feature_vector(feat_in.file, feat_in.lib, caps)]
  /\ UNCHANGED <<caps, feat_in, guf, gp_in, gp, benchVars>>

\* ---------------------------------------------------------- get_prediction
\* MODELS
ModelNames ==
  {"Baseline MLP", "Robust MLP", "Wide & Deep", "ResNet MLP", "DL-ML Hybrid"}

\* The classes of the saved label encoder, in the order of their indices.
LabelClasses == <<"7zip", "bzip2", "flac", "gzip", "winrar", "zip">>

\* allowed_extensions
allowed_extensions ==
  { <<".","t","x","t">>, <<".","c","s","v">>, <<".","j","s","o","n">>,
    <<".","p","d","f">>, <<".","p","n","g">>, <<".","j","p","g">>,
    <<".","j","p","e","g">>, <<".","w","a","v">> }

\* A slip: the extension compared as it is written.
gp_ext_case_sensitive(path) == splitext(path)[2]

\* ext = os.path.splitext(file_path)[1].lower()
gp_ext(path) == lower(splitext(path)[2])

\* A slip: >= for >.
too_large_from_limit(size) == size >= MAX_SIZE

\* original_size > 50 * 1024 * 1024
too_large(size) == size > MAX_SIZE

\* A slip: the checks placed after the feature extraction.
GP_ORDER_checks_late ==
  <<"enter", "extract", "check_ext", "check_size", "scale", "predict",
    "decode", "return">>

\* The statements of get_prediction, in the order it runs them.
GP_ORDER ==
  <<"enter", "check_ext", "check_size", "extract", "scale", "predict",
    "decode", "return">>

gp_after(pc) ==
  GP_ORDER[1 + CHOOSE i \in 1..(Len(GP_ORDER) - 1) : GP_ORDER[i] = pc]

\* SCALER.transform(x): a fixed transform of every column; the columns kept.
transform(x) == [scaled |-> TRUE, cols |-> 1..Len(x), x |-> x]

\* scaled_features[:, wide_indices]
columns(sf, indices) ==
  [scaled |-> sf.scaled, cols |-> indices, x |-> [i \in indices |-> sf.x[i]]]

\* wide_indices = list(range(12))
wide_indices == 1..NSTATS

\* deep_features = feature_layer_model.predict(scaled_features): the output
\* of extractor.layers[-2] for the extractor's inputs.
deep_features(sf) ==
  [scaled |-> sf.scaled, of |-> "HYBRID_EXTRACTOR", layer |-> 0 - 2, input |-> sf]

\* A slip: the wide input of "Wide & Deep" left out.
model_inputs_single(model_name, sf) ==
  IF model_name = "DL-ML Hybrid" THEN <<deep_features(sf)>> ELSE <<sf>>

\* What model.predict is given, for each model name.
model_inputs(model_name, sf) ==
  IF model_name = "DL-ML Hybrid" THEN <<deep_features(sf)>>
  ELSE IF model_name = "Wide & Deep" THEN <<sf, columns(sf, wide_indices)>>
  ELSE <<sf>>

\* What a network's predict may return for one row: the class probabilities.
ProbRows ==
  { [c \in 1..Len(LabelClasses) |-> IF c = k THEN 2 ELSE 1] : k \in 1..Len(LabelClasses) }
  \cup { [c \in 1..Len(LabelClasses) |-> 1] }

\* np.argmax(pred_probs, axis=1)[0]: the first index of the largest value,
\* counted from 0.
argmax(row) ==
  (CHOOSE i \in 1..Len(row) :
     /\ \A j \in 1..Len(row) : row[j] <= row[i]
     /\ \A j \in 1..(i - 1) : row[j] < row[i]) - 1

\* LABEL_ENCODER.inverse_transform([pred_enc])[0]
inverse_transform(pred_enc) == LabelClasses[pred_enc + 1]

NoLocals ==
  [original_size |-> 0, ext |-> <<>>, raw_features |-> <<>>,
   key_insights |-> <<>>, scaled_features |-> transform(<<>>),
   model_inputs |-> <<>>, model_output |-> <<>>, pred_enc |-> 0]

InitPredict ==
  /\ gp_in \in [file : PredictFiles, model_name : ModelNames, lib : LibOutcomes]
  /\ gp = [pc |-> "enter", raised |-> "none", log |-> <<>>, loc |-> NoLocals,
           recommended_tool |-> "none"]

\* start_time, original_size = os.path.getsize(file_path), ext
GP_Enter ==
  /\ gp.pc = "enter"
  /\ IF ~gp_in.file.exists
     THEN gp' = [gp EXCEPT !.pc = "raised", !.raised = "FileNotFoundError"]
     ELSE gp' = [gp EXCEPT !.pc = gp_after("enter"),
                           !.loc.original_size = getsize(gp_in.file),
                           !.loc.ext = gp_ext(gp_in.file.path)]
  /\ UNCHANGED <<caps, gp_in, featVars, benchVars>>

\* if ext not in allowed_extensions: raise ValueError
GP_CheckExtension ==
  /\ gp.pc = "check_ext"
  /\ IF gp.loc.ext \notin allowed_extensions
     THEN gp' = [gp EXCEPT !.pc = "raised", !.raised = "ValueError: Invalid file type"]
     ELSE gp' = [gp EXCEPT !.pc = gp_after("check_ext")]
  /\ UNCHANGED <<caps, gp_in, featVars, benchVars>>

\* if original_size > 50 * 1024 * 1024: raise ValueError
GP_CheckSize ==
  /\ gp.pc = "check_size"
  /\ IF too_large(gp.loc.original_size)
     THEN gp' = [gp EXCEPT !.pc = "raised", !.raised = "ValueError: File is too large"]
     ELSE gp' = [gp EXCEPT !.pc = gp_after("check_size")]
  /\ UNCHANGED <<caps, gp_in, featVars, benchVars>>

\* raw_features, key_insights = compile_feature_vector(file_path)
GP_Extract ==
  /\ gp.pc = "extract"
  /\ LET r == compile_feature_vector(gp_in.file, gp_in.lib, caps)
         errors == errors_of(gp_in.file, gp_in.lib, caps)
     IN  IF errors # {}
         THEN gp' = [gp EXCEPT !.pc = "raised",
                               !.log = Append(gp.log, "compile_feature_vector"),
                               !.raised = CHOOSE e \in errors : TRUE]
         ELSE gp' = [gp EXCEPT !.pc = gp_after("extract"),
                               !.log = Append(gp.log, "compile_feature_vector"),
                               !.loc.raw_features = r.raw_features,
                               !.loc.key_insights = r.insights]
  /\ UNCHANGED <<caps, gp_in, featVars, benchVars>>

\* scaled_features = INFERENCE_CACHE["SCALER"].transform(raw_features)
GP_Scale ==
  /\ gp.pc = "scale"
  /\ gp' = [gp EXCEPT !.pc = gp_after("scale"),
                      !.log = Append(gp.log, "SCALER.transform"),
                      !.loc.scaled_features = transform(gp.loc.raw_features)]
  /\ UNCHANGED <<caps, gp_in, featVars, benchVars>>

\* The model's forward pass: through the shared extractor and the secondary
\* classifier, which returns the class index, for "DL-ML Hybrid"; else a
\* network's predict and the arg-max of the probabilities.
GP_Predict ==
  /\ gp.pc = "predict"
  /\ IF gp_in.model_name = "DL-ML Hybrid"
     THEN \E cls \in 0..(Len(LabelClasses) - 1) :
            gp' = [gp EXCEPT !.pc = gp_after("predict"),
                             !.log = gp.log \o <<"HYBRID_EXTRACTOR.predict", "model.predict">>,
                             !.loc.model_inputs =
                                model_inputs(gp_in.model_name, gp.loc.scaled_features),
                             !.loc.model_output = <<cls>>,
                             !.loc.pred_enc = cls]
     ELSE \E pred_probs \in ProbRows :
            gp' = [gp EXCEPT !.pc = gp_after("predict"),
                             !.log = Append(gp.log, "model.predict"),
                             !.loc.model_inputs =
                                model_inputs(gp_in.model_name, gp.loc.scaled_features),
                             !.loc.model_output = pred_probs,
                             !.loc.pred_enc = argmax(pred_probs)]
  /\ UNCHANGED <<caps, gp_in, featVars, benchVars>>

\* recommended_tool = LABEL_ENCODER.inverse_transform([pred_enc])[0]
GP_Decode ==
  /\ gp.pc = "decode"
  /\ gp' = [gp EXCEPT !.pc = gp_after("decode"),
                      !.log = Append(gp.log, "LABEL_ENCODER.inverse_transform"),
                      !.recommended_tool = inverse_transform(gp.loc.pred_enc)]
  /\ UNCHANGED <<caps, gp_in, featVars, benchVars>>

\* return recommended_tool, key_insights, prediction_time
GP_Return ==
  /\ gp.pc = "return"
  /\ gp' = [gp EXCEPT !.pc = "done"]
  /\ UNCHANGED <<caps, gp_in, featVars, benchVars>>

\* -------------------------------------------------- run_single_compression
\* The sessions of the application; each runs its script on a thread of its own.
Sessions == {"s1", "s2"}

\* A slip: the tools in alphabetical order.
all_tools_alphabetical == <<"7zip", "bzip2", "flac", "gzip", "winrar", "zip">>

\* all_tools
all_tools == <<"7zip", "zip", "winrar", "gzip", "bzip2", "flac">>

\* COMPRESSOR_PATHS
COMPRESSOR_PATHS ==
  [t \in {all_tools[i] : i \in 1..Len(all_tools)} |->
     CASE t = "7zip" -> "7z"
       [] t = "zip" -> "zip"
       [] t = "winrar" -> "rar"
       [] t = "gzip" -> "gzip"
       [] t = "bzip2" -> "bzip2"
       [] t = "flac" -> "flac"]

\* The tool identifiers a caller may pass: the six, and one that is none of them.
ToolIds == DOMAIN COMPRESSOR_PATHS \cup {"lz4"}

\* The tools run with an output path of their own, and those that compress
\* the copy of the input in place.
ArchiveTools == {"7zip", "winrar", "zip", "flac"}
InPlaceTools == {"gzip", "bzip2"}

\* The results that stand for "nothing was run": return 1.0, 0.0, None
UNAVAILABLE == [ratio |-> One, elapsed |-> 0, path |-> "None"]

\* A slip: the executable looked up before the size is looked at.
RS_ORDER_lookup_first ==
  <<"lookup", "enter", "mktemp", "copy_in", "run", "measure", "copy_open",
    "copy_write", "finish">>

\* A slip: the temporary directory made before the executable is looked up.
RS_ORDER_mktemp_first ==
  <<"enter", "mktemp", "lookup", "copy_in", "run", "measure", "copy_open",
    "copy_write", "finish">>

\* A slip: the return moved in front of the copy to the working directory.
RS_ORDER_no_copy_out ==
  <<"enter", "lookup", "mktemp", "copy_in", "run", "measure", "finish",
    "copy_open", "copy_write">>

\* The statements of run_single_compression, in the order it runs them.
RS_ORDER ==
  <<"enter", "lookup", "mktemp", "copy_in", "run", "measure", "copy_open",
    "copy_write", "finish">>

rs_after(pc) ==
  RS_ORDER[1 + CHOOSE i \in 1..(Len(RS_ORDER) - 1) : RS_ORDER[i] = pc]

\* A slip: except subprocess.SubprocessError, which a missing output file or a
\* failed copy is not.
caught_subprocess_only(exc) == exc \in {"CalledProcessError", "TimeoutExpired"}

\* A slip: except subprocess.CalledProcessError, the other errors let through.
caught_exit_only(exc) == exc = "CalledProcessError"

\* except Exception: every error raised inside the try block is one.
caught(exc) ==
  exc \in {"CalledProcessError", "TimeoutExpired", "FileNotFoundError", "OSError"}

\* The sizes a tool's output file may have, for an input of size n.
CompSizes(n) == {0, 1, n + 1}

NoFrame ==
  [pc |-> "off", tool |-> "zip", caller |-> "app", original_size |-> 0,
   elapsed |-> 0, found |-> FALSE, failure |-> "none", comp_size |-> 0,
   ratio |-> One, ret |-> UNAVAILABLE, raised |-> "none", log |-> <<>>]

NoTmp == [exists |-> FALSE, input |-> FALSE, out_exists |-> FALSE, out_size |-> 0]

NoDownload == [exists |-> FALSE, size |-> 0, by |-> "nobody", whole |-> TRUE]

\* A slip: the directory made with mkdtemp and never removed.
rmtree_forgotten(t) == t

\* Leaving the with block of TemporaryDirectory removes the directory.
rmtree(t) == NoTmp

\* The call run_single_compression(tool, disk[p]) of session p begins.
call_single(p, tool, caller) ==
  [NoFrame EXCEPT !.pc = RS_ORDER[1], !.tool = tool, !.caller = caller]

\* A slip: the failure reported with ratio 0.0.
rs_raise_zero_ratio(f, exc, kind) ==
  [f EXCEPT !.pc = "returned", !.failure = kind,
            !.ret = [ratio |-> Zero, elapsed |-> f.elapsed, path |-> "None"],
            !.log = Append(f.log, "rmtree")]

\* A slip: the failure reported as 1.0, 0.0, None, like the early returns.
rs_raise_no_elapsed(f, exc, kind) ==
  [f EXCEPT !.pc = "returned", !.failure = kind, !.ret = UNAVAILABLE,
            !.log = Append(f.log, "rmtree")]

\* What the frame becomes when an error is raised inside the try block:
\* caught, it returns 1.0, time.time() - start_time, None on the way out of
\* the with block; not caught, it leaves the function.
rs_raise(f, exc, kind) ==
  IF caught(exc)
  THEN [f EXCEPT !.pc = "returned", !.failure = kind,
                 !.ret = [ratio |-> One, elapsed |-> f.elapsed, path |-> "None"],
                 !.log = Append(f.log, "rmtree")]
  ELSE [f EXCEPT !.pc = "raised", !.failure = kind, !.raised = exc,
                 !.log = Append(f.log, "rmtree")]

\* start_time = time.time(); original_size = os.path.getsize(file_path);
\* if original_size == 0: return 1.0, 0.0, None
RS_Enter(p) ==
  /\ rs[p].pc = "enter"
  /\ LET f == rs[p]
         n == getsize(disk[p])
     IN  rs' = [rs EXCEPT ![p] =
           IF ~disk[p].exists
           THEN [f EXCEPT !.pc = "raised", !.raised = "FileNotFoundError"]
           ELSE IF n = 0
           THEN [f EXCEPT !.pc = "returned", !.original_size = n,
                          !.log = Append(f.log, "getsize"), !.ret = UNAVAILABLE]
           ELSE [f EXCEPT !.pc = rs_after("enter"), !.original_size = n,
                          !.log = Append(f.log, "getsize")]]
  /\ UNCHANGED <<disk, tmpdir, downloads>>
  /\ UNCHANGED <<caps, featVars, predVars, fb>>

\* A slip: a tool that is not in the table taken for one that is not found.
lookup_raises_never(tool) == FALSE

\* COMPRESSOR_PATHS.get(tool) is None for a tool that is not a key, and
\* shutil.which(None) raises TypeError.
lookup_raises(tool) == tool \notin DOMAIN COMPRESSOR_PATHS

\* tool_cmd_path = COMPRESSOR_PATHS.get(tool); executable = shutil.which(...);
\* if not executable: return 1.0, 0.0, None.  which(None) raises TypeError.
RS_Lookup(p) ==
  /\ rs[p].pc = "lookup"
  /\ LET f == rs[p]
     IN  IF lookup_raises(f.tool)
         THEN rs' = [rs EXCEPT ![p] =
                [f EXCEPT !.pc = "raised", !.raised = "TypeError",
                          !.log = Append(f.log, "which")]]
         ELSE \E on_path \in BOOLEAN :
                rs' = [rs EXCEPT ![p] =
                  IF ~on_path
                  THEN [f EXCEPT !.pc = "returned", !.found = FALSE,
                                 !.log = Append(f.log, "which"), !.ret = UNAVAILABLE]
                  ELSE [f EXCEPT !.pc = rs_after("lookup"), !.found = TRUE,
                                 !.log = Append(f.log, "which")]]
  /\ UNCHANGED <<disk, tmpdir, downloads>>
  /\ UNCHANGED <<caps, featVars, predVars, fb>>

\* with tempfile.TemporaryDirectory() as temp_dir:
RS_MkTemp(p) ==
  /\ rs[p].pc = "mktemp"
  /\ rs' = [rs EXCEPT ![p].pc = rs_after("mktemp"),
                      ![p].log = Append(rs[p].log, "mkdtemp")]
  /\ tmpdir' = [tmpdir EXCEPT ![p] = [NoTmp EXCEPT !.exists = TRUE]]
  /\ UNCHANGED <<disk, downloads>>
  /\ UNCHANGED <<caps, featVars, predVars, fb>>

\* shutil.copyfile(file_path, temp_input_path); a file that cannot be read, or
\* a full disk, makes it raise OSError.
RS_CopyIn(p) ==
  /\ rs[p].pc = "copy_in"
  /\ \E ok \in (IF disk[p].readable THEN BOOLEAN ELSE {FALSE}) :
       IF ok
       THEN /\ rs' = [rs EXCEPT ![p].pc = rs_after("copy_in"),
                                ![p].log = Append(rs[p].log, "copyfile")]
            /\ tmpdir' = [tmpdir EXCEPT ![p].input = TRUE]
       ELSE /\ rs' = [rs EXCEPT ![p] = rs_raise(rs[p], "OSError", "copy_in")]
            /\ tmpdir' = [tmpdir EXCEPT ![p] = rmtree(tmpdir[p])]
  /\ UNCHANGED <<disk, downloads>>
  /\ UNCHANGED <<caps, featVars, predVars, fb>>

\* A slip: subprocess.run without timeout=60; a process that does not exit
\* is waited for without end.
timed_out_unbounded(f) == [f EXCEPT !.pc = "blocked"]

\* The process is still running after 60 seconds: subprocess.run kills it
\* and raises TimeoutExpired.
timed_out(f) ==
  rs_raise([f EXCEPT !.elapsed = f.elapsed + TIMEOUT], "TimeoutExpired", "timeout")

\* A slip: gzip and bzip2 given the caller's file.
in_place_target_original == "file_path"

\* cmd = [executable, "-9", temp_input_path]: the file gzip and bzip2 replace
\* by their output.
in_place_target == "temp_input_path"

\* subprocess.run(cmd, cwd=temp_dir, check=True, timeout=60): the executable
\* exits 0 having written its output file, or exits 0 without one, or exits
\* non-zero (CalledProcessError), or is killed at the timeout (TimeoutExpired).
\* gzip and bzip2 replace the copy of the input by their output.
RS_Run(p) ==
  /\ rs[p].pc = "run"
  /\ LET f == [rs[p] EXCEPT !.log = Append(rs[p].log, "subprocess.run")]
     IN  \/ \E c \in CompSizes(f.original_size) :
              /\ rs' = [rs EXCEPT ![p] =
                   [f EXCEPT !.pc = rs_after("run"), !.elapsed = f.elapsed + 1]]
              /\ IF f.tool \in InPlaceTools /\ in_place_target = "file_path"
                 THEN /\ disk' = [disk EXCEPT ![p].exists = FALSE, ![p].data = <<>>]
                      /\ tmpdir' = [tmpdir EXCEPT ![p].out_exists = TRUE,
                                                  ![p].out_size = c]
                 ELSE /\ tmpdir' = [tmpdir EXCEPT ![p] =
                           [exists |-> TRUE, input |-> f.tool \notin InPlaceTools,
                            out_exists |-> TRUE, out_size |-> c]]
                      /\ UNCHANGED disk
         \/ /\ rs' = [rs EXCEPT ![p] =
                 [f EXCEPT !.pc = rs_after("run"), !.elapsed = f.elapsed + 1]]
            /\ UNCHANGED <<tmpdir, disk>>
         \/ /\ rs' = [rs EXCEPT ![p] =
                 rs_raise([f EXCEPT !.elapsed = f.elapsed + 1],
                          "CalledProcessError", "nonzero_exit")]
            /\ tmpdir' = [tmpdir EXCEPT ![p] = rmtree(tmpdir[p])]
            /\ UNCHANGED disk
         \/ /\ rs' = [rs EXCEPT ![p] = timed_out(f)]
            /\ tmpdir' = [tmpdir EXCEPT ![p] = rmtree(tmpdir[p])]
            /\ UNCHANGED disk
  /\ UNCHANGED downloads
  /\ UNCHANGED <<caps, featVars, predVars, fb>>

\* A slip: the sizes the wrong way round.
ratio_of_inverted(original_size, comp_size) ==
  IF comp_size > 0 THEN Frac(comp_size, original_size) ELSE One

\* ratio = original_size / comp_size if comp_size > 0 else 1.0
ratio_of(original_size, comp_size) ==
  IF comp_size > 0 THEN Frac(original_size, comp_size) ELSE One

\* comp_size = os.path.getsize(output_path); ratio = ...
RS_Measure(p) ==
  /\ rs[p].pc = "measure"
  /\ LET f == rs[p]
         c == tmpdir[p].out_size
     IN  IF ~tmpdir[p].out_exists
         THEN /\ rs' = [rs EXCEPT ![p] = rs_raise(f, "FileNotFoundError", "no_output")]
              /\ tmpdir' = [tmpdir EXCEPT ![p] = rmtree(tmpdir[p])]
         ELSE /\ rs' = [rs EXCEPT ![p] =
                   [f EXCEPT !.pc = rs_after("measure"), !.comp_size = c,
                             !.ratio = ratio_of(f.original_size, c)]]
              /\ UNCHANGED tmpdir
  /\ UNCHANGED <<disk, downloads>>
  /\ UNCHANGED <<caps, featVars, predVars, fb>>

\* shutil.copyfile(output_path, f"compressed_output.{tool}"), its first half:
\* the destination is opened for writing and is empty; or cannot be opened.
RS_CopyOpen(p) ==
  /\ rs[p].pc = "copy_open"
  /\ \/ /\ rs' = [rs EXCEPT ![p].pc = rs_after("copy_open"),
                            ![p].log = Append(rs[p].log, "copyfile_out")]
        /\ downloads' = [downloads EXCEPT ![rs[p].tool] =
             [exists |-> TRUE, size |-> 0, by |-> p, whole |-> tmpdir[p].out_size = 0]]
        /\ UNCHANGED tmpdir
     \/ /\ rs' = [rs EXCEPT ![p] = rs_raise(rs[p], "OSError", "copy_out")]
        /\ tmpdir' = [tmpdir EXCEPT ![p] = rmtree(tmpdir[p])]
        /\ UNCHANGED downloads
  /\ UNCHANGED disk
  /\ UNCHANGED <<caps, featVars, predVars, fb>>

\* ... and its second half: the bytes of the output file are written.
RS_CopyWrite(p) ==
  /\ rs[p].pc = "copy_write"
  /\ rs' = [rs EXCEPT ![p].pc = rs_after("copy_write")]
  /\ downloads' = [downloads EXCEPT ![rs[p].tool] =
       [exists |-> TRUE, size |-> tmpdir[p].out_size, by |-> p, whole |-> TRUE]]
  /\ UNCHANGED <<disk, tmpdir>>
  /\ UNCHANGED <<caps, featVars, predVars, fb>>

\* A slip: the tool left out of the name.
final_download_path_fixed(tool) == "compressed_output"

\* final_download_path = f"compressed_output.{tool}"
final_download_path(tool) == "compressed_output." \o tool

\* return ratio, time.time() - start_time, final_download_path; the with
\* block removes the temporary directory on the way out.
RS_Finish(p) ==
  /\ rs[p].pc = "finish"
  /\ rs' = [rs EXCEPT ![p].pc = "returned",
                      ![p].log = Append(rs[p].log, "rmtree"),
                      ![p].ret = [ratio |-> rs[p].ratio, elapsed |-> rs[p].elapsed,
                                  path |-> final_download_path(rs[p].tool)]]
  /\ tmpdir' = [tmpdir EXCEPT ![p] = rmtree(tmpdir[p])]
  /\ UNCHANGED <<disk, downloads>>
  /\ UNCHANGED <<caps, featVars, predVars, fb>>


\* ------------------------------------------------------ run_full_benchmark
\* x / y of two numbers, y not 0
Div(x, y) == Frac(x.num * y.den, x.den * y.num)

\* x < y
Less(x, y) == x.num * y.den < y.num * x.den

\* A slip: the audio codec never skipped.
skip_flac_never(tool, ext) == FALSE

\* if tool == "flac" and ext != ".wav", ext being the extension in lower case
\* with its dots stripped
skip_flac(tool, ext) == tool = "flac" /\ ext # <<".", "w", "a", "v">>

\* size = original_size / ratio if ratio > 0 else original_size
size_for(original_size, ratio) ==
  IF IsPos(ratio) THEN Div(Whole(original_size), ratio) ELSE Whole(original_size)

\* Row j of the table goes before row i: its ratio is greater, or it is equal
\* and j is the earlier row.
goes_before(tools, ratios, j, i) ==
  \/ Less(ratios[tools[i]], ratios[tools[j]])
  \/ (~Less(ratios[tools[j]], ratios[tools[i]]) /\ j < i)

\* A slip: the sorted frame sort_values returns is dropped.
sort_desc_dropped(tools, ratios) == tools

\* sort_values(by="Ratio", ascending=False) of the six rows: a row stands
\* behind the rows of greater ratio, rows of equal ratio keep their order.
sort_desc(tools, ratios) ==
  [k \in 1..Len(tools) |->
     tools[CHOOSE i \in 1..Len(tools) :
             Cardinality({j \in 1..Len(tools) :
                            goes_before(tools, ratios, j, i)}) = k - 1]]

\* colors = ["#1f77b4"] * len(df_bench); the recommended tool's bar "#ff7f0e"
colors_of(order, recommended_tool) ==
  [i \in 1..Len(order) |->
     IF order[i] = recommended_tool THEN "#ff7f0e" ELSE "#1f77b4"]

\* summary_report: the original size in KB, and a row for each tool in the
\* order of the table, ratio and size in KB to two decimals.
summary_of(order, ratios, sizes, original_size) ==
  [original_kb |-> fmt(Frac(original_size, 1024), 2),
   rows |-> [i \in 1..Len(order) |->
              [tool |-> order[i], ratio |-> fmt(ratios[order[i]], 2),
               size_kb |-> fmt(Div(sizes[order[i]], Whole(1024)), 2)]]]

NoReport == [order |-> <<>>, colors |-> <<>>, summary |-> <<>>, brute_force_time |-> 0]

NoBench ==
  [pc |-> "off", recommended_tool |-> "zip", original_size |-> 0, i |-> 1,
   ratios |-> <<>>, sizes |-> <<>>, called |-> <<>>, elapsed |-> 0,
   raised |-> "none", report |-> NoReport]

\* benchmark_results[...][tool] = ...
record(b, tool, ratio, size) ==
  [b EXCEPT !.ratios = [t \in DOMAIN b.ratios \cup {tool} |->
                          IF t = tool THEN ratio ELSE b.ratios[t]],
            !.sizes = [t \in DOMAIN b.sizes \cup {tool} |->
                          IF t = tool THEN size ELSE b.sizes[t]],
            !.i = b.i + 1,
            !.pc = IF b.i = Len(all_tools) THEN "report" ELSE "loop"]

\* original_size = os.path.getsize(file_path); time_start_full = time.time()
FB_Start(p) ==
  /\ fb[p].pc = "start"
  /\ fb' = [fb EXCEPT ![p] =
       IF ~disk[p].exists
       THEN [fb[p] EXCEPT !.pc = "raised", !.raised = "FileNotFoundError"]
       ELSE [fb[p] EXCEPT !.pc = "loop", !.original_size = getsize(disk[p])]]
  /\ UNCHANGED <<disk, rs, tmpdir, downloads>>
  /\ UNCHANGED <<caps, featVars, predVars>>

\* for tool in all_tools: the audio codec's row is filled in without a run;
\* for every other tool run_single_compression is called.
FB_Iterate(p) ==
  /\ fb[p].pc = "loop"
  /\ LET b == fb[p]
         tool == all_tools[b.i]
         ext == ext_of(disk[p].path)
     IN  IF skip_flac(tool, ext)
         THEN /\ fb' = [fb EXCEPT ![p] =
                   record(b, tool, Zero, Whole(b.original_size))]
              /\ UNCHANGED rs
         ELSE /\ fb' = [fb EXCEPT ![p].pc = "wait",
                                  ![p].called = Append(b.called, tool)]
              /\ rs' = [rs EXCEPT ![p] = call_single(p, tool, "full")]
  /\ UNCHANGED <<disk, tmpdir, downloads>>
  /\ UNCHANGED <<caps, featVars, predVars>>

\* ratio, _, _ = run_single_compression(tool, file_path) has returned (or has
\* raised, and the error leaves run_full_benchmark too); the row is filled in.
FB_Collect(p) ==
  /\ fb[p].pc = "wait"
  /\ rs[p].caller = "full"
  /\ rs[p].pc \in {"returned", "raised"}
  /\ LET b == [fb[p] EXCEPT !.elapsed = fb[p].elapsed + rs[p].elapsed]
         ratio == rs[p].ret.ratio
     IN  fb' = [fb EXCEPT ![p] =
           IF rs[p].pc = "raised"
           THEN [b EXCEPT !.pc = "raised", !.raised = rs[p].raised]
           ELSE record(b, rs[p].tool, ratio, size_for(b.original_size, ratio))]
  /\ rs' = [rs EXCEPT ![p] = NoFrame]
  /\ UNCHANGED <<disk, tmpdir, downloads>>
  /\ UNCHANGED <<caps, featVars, predVars>>

\* brute_force_time, the sorted table, the chart's colours and the summary
FB_Report(p) ==
  /\ fb[p].pc = "report"
  /\ \E b \in {fb[p]} :
       \E order \in {sort_desc(all_tools, b.ratios)} :
         fb' = [fb EXCEPT ![p].pc = "returned",
                          ![p].report =
                            [order |-> order,
                             colors |-> colors_of(order, b.recommended_tool),
                             summary |-> summary_of(order, b.ratios, b.sizes,
                                                    b.original_size),
                             brute_force_time |-> b.elapsed]]
  /\ UNCHANGED <<disk, rs, tmpdir, downloads>>
  /\ UNCHANGED <<caps, featVars, predVars>>

\* ----------------------------------------------------------- bench inputs
\* The input files of the benchmark runner: text and audio, empty and not.
BenchFiles ==
  [path : { <<"a",".","t","x","t">>, <<"a",".","W","a","v">> },
   data : { IF n = 0 THEN <<>> ELSE <<[b |-> 65, n |-> n]>> : n \in 0..MaxInputSize },
   exists : {TRUE}, readable : {TRUE}]
  \cup [path : { <<"a",".","t","x","t">> }, data : { <<[b |-> 65, n |-> 1]>> },
        exists : {TRUE}, readable : {FALSE}]

\* What the caller may pass for recommended_tool.
RecommendedTools == {"7zip", "flac", "lz4"}

\* One session, which calls run_single_compression or run_full_benchmark once.
InitBench ==
  /\ \E f \in BenchFiles :
       disk = [p \in Sessions |-> IF p = "s1" THEN f ELSE NoFile]
  /\ tmpdir = [p \in Sessions |-> NoTmp]
  /\ downloads = [t \in ToolIds |-> NoDownload]
  /\ \/ /\ \E t \in ToolIds :
             rs = [p \in Sessions |->
                     IF p = "s1" THEN call_single(p, t, "app") ELSE NoFrame]
        /\ fb = [p \in Sessions |-> NoBench]
     \/ /\ rs = [p \in Sessions |-> NoFrame]
        /\ \E r \in RecommendedTools :
             fb = [p \in Sessions |->
                     IF p = "s1"
                     THEN [NoBench EXCEPT !.pc = "start", !.recommended_tool = r]
                     ELSE NoBench]

\* One session and a file of one byte, or none: a call of
\* run_single_compression for each tool identifier, or a full benchmark.
InitLive ==
  /\ \E n \in 0..1 :
       disk = [p \in Sessions |->
                 IF p = "s1"
                 THEN [path |-> <<"a",".","t","x","t">>,
                       data |-> IF n = 0 THEN <<>> ELSE <<[b |-> 65, n |-> n]>>,
                       exists |-> TRUE, readable |-> TRUE]
                 ELSE NoFile]
  /\ tmpdir = [p \in Sessions |-> NoTmp]
  /\ downloads = [t \in ToolIds |-> NoDownload]
  /\ \/ /\ \E t \in ToolIds :
             rs = [p \in Sessions |->
                     IF p = "s1" THEN call_single(p, t, "app") ELSE NoFrame]
        /\ fb = [p \in Sessions |-> NoBench]
     \/ /\ rs = [p \in Sessions |-> NoFrame]
        /\ fb = [p \in Sessions |->
                   IF p = "s1"
                   THEN [NoBench EXCEPT !.pc = "start", !.recommended_tool = "zip"]
                   ELSE NoBench]

\* The tools two sessions ask for at the same time.
OverlapTools == {"zip", "gzip"}

\* Two sessions, each with a file of its own, call run_single_compression;
\* their calls overlap in every way the threads' scheduling allows.
InitOverlap ==
  /\ disk \in [Sessions ->
       [path : { <<"a",".","t","x","t">> },
        data : { <<[b |-> 65, n |-> n]>> : n \in 1..MaxInputSize },
        exists : {TRUE}, readable : {TRUE}]]
  /\ \E tools \in [Sessions -> OverlapTools] :
       rs = [p \in Sessions |-> call_single(p, tools[p], "app")]
  /\ tmpdir = [p \in Sessions |-> NoTmp]
  /\ downloads = [t \in ToolIds |-> NoDownload]
  /\ fb = [p \in Sessions |-> NoBench]

IdleBench ==
  /\ disk = [p \in Sessions |-> NoFile]
  /\ rs = [p \in Sessions |-> NoFrame]
  /\ tmpdir = [p \in Sessions |-> NoTmp]
  /\ downloads = [t \in ToolIds |-> NoDownload]
  /\ fb = [p \in Sessions |-> NoBench]

vars == <<caps, feat_in, guf, cfv, gp_in, gp, disk, rs, tmpdir, downloads, fb>>

IdleFeatures ==
  /\ feat_in = [file |-> NoFile, lib |-> CHOOSE l \in LibOutcomes : ~l.image.ok]
  /\ guf = NoGuf
  /\ cfv = NoCfv

IdlePredict ==
  /\ gp_in = [file |-> NoFile, model_name |-> "Baseline MLP",
              lib |-> CHOOSE l \in LibOutcomes : ~l.image.ok]
  /\ gp = [pc |-> "idle", raised |-> "none", log |-> <<>>, loc |-> NoLocals,
           recommended_tool |-> "none"]

FeaturesInit == caps \in Caps /\ InitFeatures /\ IdlePredict /\ IdleBench
FeaturesNext == CallGetUniversalFeatures \/ CallCompileFeatureVector
FeaturesSpec == FeaturesInit /\ [][FeaturesNext]_vars

PredictInit == caps \in Caps /\ InitPredict /\ IdleFeatures /\ IdleBench
PredictNext ==
  \/ GP_Enter \/ GP_CheckExtension \/ GP_CheckSize \/ GP_Extract
  \/ GP_Scale \/ GP_Predict \/ GP_Decode \/ GP_Return
PredictSpec == PredictInit /\ [][PredictNext]_vars

BenchInit ==
  /\ caps = [PYDUB_AVAILABLE |-> TRUE, PYMUPDF_AVAILABLE |-> TRUE]
  /\ InitBench /\ IdleFeatures /\ IdlePredict
BenchNext ==
  \E p \in Sessions :
    \/ RS_Enter(p) \/ RS_Lookup(p) \/ RS_MkTemp(p) \/ RS_CopyIn(p) \/ RS_Run(p)
    \/ RS_Measure(p) \/ RS_CopyOpen(p) \/ RS_CopyWrite(p) \/ RS_Finish(p)
    \/ FB_Start(p) \/ FB_Iterate(p) \/ FB_Collect(p) \/ FB_Report(p)
BenchSpec == BenchInit /\ [][BenchNext]_vars

\* The thread of a session keeps running, and a process started by
\* subprocess.run exits or is killed at the timeout: a step that can be taken
\* is taken.
LiveInit ==
  /\ caps = [PYDUB_AVAILABLE |-> TRUE, PYMUPDF_AVAILABLE |-> TRUE]
  /\ InitLive /\ IdleFeatures /\ IdlePredict
LiveSpec == LiveInit /\ [][BenchNext]_vars /\ WF_vars(BenchNext)

OverlapInit ==
  /\ caps = [PYDUB_AVAILABLE |-> TRUE, PYMUPDF_AVAILABLE |-> TRUE]
  /\ InitOverlap /\ IdleFeatures /\ IdlePredict
OverlapNext ==
  \E p \in Sessions :
    \/ RS_Enter(p) \/ RS_Lookup(p) \/ RS_MkTemp(p) \/ RS_CopyIn(p) \/ RS_Run(p)
    \/ RS_Measure(p) \/ RS_CopyOpen(p) \/ RS_CopyWrite(p) \/ RS_Finish(p)
OverlapSpec == OverlapInit /\ [][OverlapNext]_vars

\* =========================================================== the claims
\* ----------------------------------------------------------------- C1
\* The extensions get_prediction takes, written without the dot.
AllowedNames ==
  { <<"t","x","t">>, <<"c","s","v">>, <<"j","s","o","n">>, <<"p","d","f">>,
    <<"p","n","g">>, <<"j","p","g">>, <<"j","p","e","g">>, <<"w","a","v">> }

\* The file's extension, in lower case, is one of the list.
ExtensionInList(f) == ext_of(f.path) \in AllowedNames

ExtensionChecked == gp_in.file.exists /\ gp.pc \notin {"idle", "enter", "check_ext"}
SizeChecked == ExtensionChecked /\ gp.pc # "check_size"

\* C1: get_prediction raises the invalid-type ValueError for every existing
\* file whose extension, compared case-insensitively, is not one of txt, csv,
\* json, pdf, png, jpg, jpeg, wav, whatever the content, the size and the
\* model name, and never raises it for a file whose extension is in the list.
C1_ExtensionValidation ==
  ExtensionChecked =>
    (gp.raised = "ValueError: Invalid file type" <=> ~ExtensionInList(gp_in.file))

\* Reached: a file over the size limit rejected for its extension.
C1_Witness ==
  /\ gp.pc = "raised"
  /\ gp.raised = "ValueError: Invalid file type"
  /\ getsize(gp_in.file) > 52428800
  /\ ~ExtensionInList(gp_in.file)

\* ----------------------------------------------------------------- C2
\* C2: for a file with an allowed extension, get_prediction accepts every size
\* up to and including 52,428,800 bytes and raises the too-large ValueError
\* for every size above it.
C2_SizeValidation ==
  (SizeChecked /\ ExtensionInList(gp_in.file)) =>
    /\ getsize(gp_in.file) > 52428800 => gp.raised = "ValueError: File is too large"
    /\ getsize(gp_in.file) <= 52428800 => gp.raised = "none" /\ gp.pc # "raised"

\* Reached: a file of exactly 50 MiB taken through to the returned tool.
C2_Witness ==
  /\ gp.pc = "done"
  /\ getsize(gp_in.file) = 52428800
  /\ gp.raised = "none"
  /\ gp.recommended_tool # "none"

\* ----------------------------------------------------------------- C3
HeavyWork ==
  {"compile_feature_vector", "SCALER.transform", "HYBRID_EXTRACTOR.predict",
   "model.predict", "LABEL_ENCODER.inverse_transform"}

ValidationFailed ==
  gp.raised \in {"ValueError: Invalid file type", "ValueError: File is too large"}

\* C3: where the extension check or the size check fails, neither the feature
\* extraction nor the scaler nor a model has been started; and whatever of
\* them has been started, was started on a file that passes both checks.
C3_ValidationFirst ==
  /\ ValidationFailed => gp.log = <<>>
  /\ gp.pc \in {"scale", "predict", "decode", "return", "done"} =>
       \E i \in 1..Len(gp.log) : gp.log[i] \in HeavyWork
  /\ (\E i \in 1..Len(gp.log) : gp.log[i] \in HeavyWork) =>
       /\ ExtensionInList(gp_in.file)
       /\ getsize(gp_in.file) <= 52428800

\* Reached: the size check has failed and nothing was extracted or run.
C3_Witness ==
  /\ gp.pc = "raised"
  /\ gp.raised = "ValueError: File is too large"
  /\ gp.log = <<>>

\* ----------------------------------------------------------------- C4
\* The calls of run_single_compression in progress or finished.
Calls == {p \in Sessions : rs[p].pc # "off"}

\* The steps of run_single_compression past the check of the size.
PastSizeCheck == {"which", "mkdtemp", "copyfile", "subprocess.run", "copyfile_out"}

InLog(f, step) == \E i \in 1..Len(f.log) : f.log[i] = step

EmptyInput(p) == disk[p].exists /\ getsize(disk[p]) = 0

\* C4: run_single_compression on a zero-byte input returns ratio 1.0, elapsed
\* 0.0 and no output path for every tool identifier, known or not: it raises
\* nothing, looks up and starts no executable, makes no temporary directory
\* and writes no compressed_output.<tool>.
C4_EmptyInputShortCircuit ==
  \A p \in Calls :
    EmptyInput(p) =>
      /\ rs[p].pc \in {"enter", "returned"}
      /\ rs[p].pc = "returned" => rs[p].ret = UNAVAILABLE
      /\ \A step \in PastSizeCheck : ~InLog(rs[p], step)
      /\ ~tmpdir[p].exists
      /\ \A t \in ToolIds : downloads[t] = NoDownload

\* A call with a tool identifier that is none of the six has returned on a
\* zero-byte input.
C4_Witness ==
  /\ EmptyInput("s1")
  /\ rs["s1"].pc = "returned"
  /\ rs["s1"].tool = "lz4"
  /\ rs["s1"].log = <<"getsize">>

\* ----------------------------------------------------------------- C5
KnownTools == DOMAIN COMPRESSOR_PATHS

\* The lookup of the executable has been made and has found nothing.
NotLocated(p) ==
  /\ rs[p].tool \in KnownTools
  /\ rs[p].original_size > 0
  /\ InLog(rs[p], "which")
  /\ ~rs[p].found

\* C5: run_single_compression on a non-empty file, with one of the six tools
\* whose executable is not on the search path, returns ratio 1.0, elapsed 0.0
\* and no output path; it raises nothing, and no temporary directory has been
\* made and no process started when it returns.
C5_MissingExecutable ==
  \A p \in Calls :
    NotLocated(p) =>
      /\ rs[p].pc = "returned"
      /\ rs[p].ret = UNAVAILABLE
      /\ rs[p].raised = "none"
      /\ ~InLog(rs[p], "mkdtemp") /\ ~InLog(rs[p], "subprocess.run")
      /\ ~tmpdir[p].exists

\* The benchmark's call for bzip2 has returned, the executable not located.
C5_Witness ==
  /\ NotLocated("s1")
  /\ rs["s1"].pc = "returned"
  /\ rs["s1"].tool = "bzip2"
  /\ rs["s1"].caller = "full"

\* ----------------------------------------------------------------- C6
\* The ways the work inside the try block fails.
Failures == {"copy_in", "nonzero_exit", "timeout", "no_output", "copy_out"}

\* C6: for each of the six tools with its executable present, a non-zero
\* exit, a timeout, a missing output file, or a failed copy of the input or of
\* the output makes run_single_compression return ratio 1.0 and no output
\* path; no exception reaches the caller.
C6_FailuresAreNeutral ==
  \A p \in Calls :
    (rs[p].tool \in KnownTools /\ rs[p].found /\ rs[p].failure \in Failures) =>
      /\ rs[p].pc = "returned"
      /\ rs[p].raised = "none"
      /\ rs[p].ret.ratio = One
      /\ rs[p].ret.path = "None"
      /\ fb[p].pc # "raised"

\* The executable was killed at the timeout, and the call has returned.
C6_Witness ==
  /\ rs["s1"].tool \in KnownTools
  /\ rs["s1"].found
  /\ rs["s1"].failure = "timeout"
  /\ rs["s1"].pc = "returned"
  /\ rs["s1"].ret.elapsed >= TIMEOUT

\* ----------------------------------------------------------------- C7
\* The benchmarks in progress or finished.
Benchmarks == {p \in Sessions : fb[p].pc \notin {"off", "start"}}

\* The input's extension is .wav, in any case of the letters.
IsWav(p) == lower(splitext(disk[p].path)[2]) = <<".", "w", "a", "v">>

FlacRows(p) ==
  {i \in 1..Len(fb[p].report.summary.rows) :
     fb[p].report.summary.rows[i].tool = "flac"}

\* C7: run_full_benchmark on an input whose extension is not .wav never calls
\* run_single_compression for flac, and records for flac the ratio 0.0 and
\* the original size, which is what the report shows.
C7_FlacSkippedForNonWav ==
  \A p \in Benchmarks :
    ~IsWav(p) =>
      /\ \A i \in 1..Len(fb[p].called) : fb[p].called[i] # "flac"
      /\ (rs[p].pc # "off" /\ rs[p].caller = "full") => rs[p].tool # "flac"
      /\ "flac" \in DOMAIN fb[p].ratios =>
           /\ fb[p].ratios["flac"] = Zero
           /\ fb[p].sizes["flac"] = Whole(fb[p].original_size)
      /\ fb[p].pc \in {"report", "returned"} => "flac" \in DOMAIN fb[p].ratios
      /\ fb[p].pc = "returned" =>
           /\ FlacRows(p) # {}
           /\ \A i \in FlacRows(p) :
                /\ fb[p].report.summary.rows[i].ratio = 0
                /\ fb[p].report.summary.rows[i].size_kb =
                     fmt(Frac(fb[p].original_size, 1024), 2)

\* A benchmark of a non-empty text file has returned; gzip ran and compressed.
C7_Witness ==
  /\ fb["s1"].pc = "returned"
  /\ ~IsWav("s1")
  /\ fb["s1"].original_size > 0
  /\ fb["s1"].called = <<"7zip", "zip", "winrar", "gzip", "bzip2">>
  /\ fb["s1"].ratios["gzip"] = Whole(fb["s1"].original_size)

\* ----------------------------------------------------------------- C8
\* The sum of bd[lo] .. bd[hi].
RECURSIVE SumRange(_, _, _)
SumRange(bd, lo, hi) ==
  IF lo = hi THEN bd[lo]
  ELSE LET mid == (lo + hi) \div 2
       IN  Add(SumRange(bd, lo, mid), SumRange(bd, mid + 1, hi))

SumDist(bd, k) == SumRange(bd, 0, k)

KnownExts == TextExts \cup {PdfExt} \cup ImageExts \cup {WavExt}

\* C8: for every file and every extension, unknown extensions and files that
\* cannot be read included, compile_feature_vector returns exactly 268 values:
\* file_size, entropy, text_avg_line_len, pdf_pages, img_w, img_h,
\* img_channels, img_bitdepth, audio_duration, audio_samplerate,
\* audio_channels, audio_bitdepth, then the byte frequencies of byte 0 to 255.
C8_VectorLayout ==
  cfv.called =>
    LET f == feat_in.file
        v == cfv.out.raw_features
        e == ext_of(f.path)
        u == get_universal_features(f)
        img == IF e \in ImageExts THEN get_image_features(f, feat_in.lib)
               ELSE <<Zero, Zero, Zero, Zero>>
        aud == IF e = WavExt
               THEN get_audio_features(f, feat_in.lib, caps.PYDUB_AVAILABLE)
               ELSE <<Zero, Zero, Zero, Zero>>
    IN  /\ Len(v) = 268
        /\ v[1] = Whole(u[1])
        /\ v[2] = u[2]
        /\ v[3] = (IF e \in TextExts THEN get_text_features(f) ELSE Zero)
        /\ v[4] = (IF e = PdfExt
                   THEN get_pdf_features(f, feat_in.lib, caps.PYMUPDF_AVAILABLE)
                   ELSE Zero)
        /\ <<v[5], v[6], v[7], v[8]>> = img
        /\ <<v[9], v[10], v[11], v[12]>> = aud
        /\ \A i \in 0..255 : v[13 + i] = u[3][i]

\* Reached: the vector of a file that cannot be read and has an unknown extension.
C8_Witness ==
  /\ cfv.called
  /\ feat_in.file.exists /\ ~feat_in.file.readable
  /\ ext_of(feat_in.file.path) \notin KnownExts
  /\ Len(cfv.out.raw_features) = 268

\* ----------------------------------------------------------------- C9
\* C9: the 256 byte-frequency entries of get_universal_features are each
\* count_of_byte / file_size and sum to 1 for every non-empty readable file,
\* and are all 0 for an empty file.
C9_ByteDistSumsToOne ==
  guf.called =>
    LET f == feat_in.file
        bd == guf.out[3]
    IN  /\ (f.exists /\ f.readable /\ getsize(f) > 0) =>
             /\ \A i \in 0..255 : bd[i] = Frac(count_in(f.data, i), getsize(f))
             /\ NumEq(SumDist(bd, 255), One)
        /\ (f.exists /\ getsize(f) = 0) =>
             /\ \A i \in 0..255 : IsZero(bd[i])
             /\ IsZero(SumDist(bd, 255))

\* Reached: a readable file of two different byte values, one of them 255.
C9_Witness ==
  /\ guf.called
  /\ feat_in.file.exists /\ feat_in.file.readable
  /\ IsPos(guf.out[3][255]) /\ IsPos(guf.out[3][65])
  /\ NumEq(SumDist(guf.out[3], 255), One)

\* ----------------------------------------------------------------- C10
OneByteValue(data) ==
  data # <<>> /\ \A i \in 1..Len(data) : data[i].b = data[1].b

Occurring(data) == {b \in 0..255 : count_in(data, b) > 0}

\* C10: the entropy of get_universal_features is 0 for an empty file and 0 for
\* a non-empty file of one repeated byte value, and the sum has a term for
\* the byte values that occur in the file and for no other.
C10_EntropyZero ==
  guf.called =>
    LET f == feat_in.file
        ent == guf.out[2]
    IN  /\ (f.exists /\ getsize(f) = 0) => IsZero(ent)
        /\ (f.exists /\ f.readable /\ OneByteValue(f.data)) => IsZero(ent)
        /\ (f.exists /\ f.readable /\ getsize(f) > 0) =>
             ent = Neg(sum_terms([b \in Occurring(f.data) |-> count_in(f.data, b)],
                                 Occurring(f.data), getsize(f)))

\* Reached: a readable file of several bytes, all of one value.
C10_Witness ==
  /\ guf.called
  /\ feat_in.file.exists /\ feat_in.file.readable
  /\ OneByteValue(feat_in.file.data) /\ getsize(feat_in.file) > 1
  /\ guf.out[1] = getsize(feat_in.file)
  /\ IsZero(guf.out[2])
\* ---------------------------------------------------------------- C11
\* The calls of run_single_compression that have returned.
Returned == {p \in Calls : rs[p].pc = "returned"}

\* The tools of the benchmark other than the audio codec.
OtherTools == {all_tools[i] : i \in 1..Len(all_tools)} \ {"flac"}

\* C11, as the claim states it: every ratio returned by
\* run_single_compression is at least 1.0, and so is the ratio of every tool
\* other than the audio codec in the report of run_full_benchmark.
C11_RatioAtLeastOne ==
  /\ \A p \in Returned : ~Less(rs[p].ret.ratio, One)
  /\ \A p \in Benchmarks :
       \A t \in OtherTools \cap DOMAIN fb[p].ratios : ~Less(fb[p].ratios[t], One)

\* C11, amended: every ratio returned by run_single_compression is greater
\* than 0; it is exactly 1.0 when nothing was run or the run failed, and on
\* success it is below 1.0 exactly when the tool's output is larger than the
\* input. Every tool other than the audio codec has a ratio greater than 0 in
\* the report of run_full_benchmark.
C11_RatioPositive ==
  /\ \A p \in Returned :
       /\ IsPos(rs[p].ret.ratio)
       /\ rs[p].ret.path = "None" => rs[p].ret.ratio = One
       /\ rs[p].ret.path # "None" =>
            (Less(rs[p].ret.ratio, One) <=> rs[p].comp_size > getsize(disk[p]))
  /\ \A p \in Benchmarks :
       \A t \in OtherTools \cap DOMAIN fb[p].ratios : IsPos(fb[p].ratios[t])

\* A benchmark has returned with a ratio below 1.0 for gzip, whose output
\* was larger than the input.
C11_Witness ==
  /\ fb["s1"].pc = "returned"
  /\ Less(fb["s1"].ratios["gzip"], One)
  /\ downloads["gzip"].size > getsize(disk["s1"])

\* ---------------------------------------------------------------- C12
\* The tool of the call has exited 0 and has left its output file.
ToolSucceeded(p) ==
  /\ InLog(rs[p], "subprocess.run")
  /\ rs[p].failure \in {"none", "copy_out"}
  /\ rs[p].pc \notin {"run", "measure"}

\* ratio is n / c for c > 0, and 1.0 for c = 0
IsRatioOf(ratio, n, c) ==
  IF c > 0 THEN ratio.num * c = n * ratio.den /\ ratio.den > 0 ELSE ratio = One

\* C12, as the claim states it: when the tool's invocation succeeds and its
\* output file exists, run_single_compression returns original_size /
\* compressed_size, or 1.0 for a compressed size of 0.
C12_RatioFormula ==
  \A p \in Returned :
    ToolSucceeded(p) =>
      IsRatioOf(rs[p].ret.ratio, getsize(disk[p]), rs[p].comp_size)

\* C12, amended: when the tool's invocation succeeds, its output file exists
\* and the copy of it to compressed_output.<tool> succeeds, the ratio returned
\* is original_size / compressed_size, or 1.0 for a compressed size of 0, of
\* the caller's input file and the tool's output file; when that copy fails
\* the ratio returned is 1.0.
C12_RatioFormulaWhenCopied ==
  \A p \in Calls :
    /\ rs[p].pc \in {"copy_open", "copy_write", "finish"} =>
         /\ rs[p].comp_size = tmpdir[p].out_size
         /\ IsRatioOf(rs[p].ratio, getsize(disk[p]), tmpdir[p].out_size)
    /\ (rs[p].pc = "returned" /\ ToolSucceeded(p)) =>
         IF rs[p].failure = "none"
         THEN /\ IsRatioOf(rs[p].ret.ratio, getsize(disk[p]), rs[p].comp_size)
              /\ rs[p].ret.path # "None"
         ELSE rs[p].ret.ratio = One /\ rs[p].ret.path = "None"

\* A call has returned the ratio 2.0 of an input of two bytes and an output
\* of one.
C12_Witness ==
  /\ rs["s1"].pc = "returned"
  /\ rs["s1"].failure = "none"
  /\ getsize(disk["s1"]) = 2
  /\ rs["s1"].comp_size = 1
  /\ rs["s1"].ret.ratio = Whole(2)

\* ---------------------------------------------------------------- C13
\* The place of a step in the log of a call; 0 if it is not there.
LogIndex(f, step) ==
  IF InLog(f, step) THEN CHOOSE i \in 1..Len(f.log) : f.log[i] = step ELSE 0

C14_TempDirRemoved ==
  \A p \in Sessions :
    rs[p].pc \in {"returned", "raised", "off"} =>
      /\ ~tmpdir[p].exists
      /\ ~tmpdir[p].input /\ ~tmpdir[p].out_exists
      /\ InLog(rs[p], "mkdtemp") => rs[p].log[Len(rs[p].log)] = "rmtree"

\* A call whose tool exited 0 without an output file has returned; it had
\* made a temporary directory.
C14_Witness ==
  /\ rs["s1"].pc = "returned"
  /\ rs["s1"].failure = "no_output"
  /\ InLog(rs["s1"], "mkdtemp")
  /\ ~tmpdir["s1"].exists

\* ---------------------------------------------------------------- C15
SixTools == {all_tools[i] : i \in 1..Len(all_tools)}

\* C15: for an existing input file no failure of a tool ends
\* run_full_benchmark: no call of run_single_compression it makes raises, it
\* does not raise, and the report it returns has a ratio and a size for each
\* of the six tools.
C15_SweepNeverAborted ==
  \A p \in Sessions :
    disk[p].exists =>
      /\ fb[p].pc # "raised"
      /\ rs[p].caller = "full" => rs[p].pc # "raised"
      /\ fb[p].pc \in {"report", "returned"} =>
           /\ DOMAIN fb[p].ratios = SixTools
           /\ DOMAIN fb[p].sizes = SixTools
      /\ fb[p].pc = "returned" =>
           {fb[p].report.summary.rows[i].tool : i \in 1..Len(all_tools)} = SixTools

\* A benchmark has returned in which two tools timed out, two failed after
\* running and one was not run at all: five ratios of 1.0, no output kept.
C15_Witness ==
  /\ fb["s1"].pc = "returned"
  /\ fb["s1"].original_size > 0
  /\ fb["s1"].report.brute_force_time = 2 * TIMEOUT + 2
  /\ \A t \in OtherTools : fb["s1"].ratios[t] = One /\ ~downloads[t].exists

\* ---------------------------------------------------------------- C16
\* The run of the tool failed: non-zero exit, timeout or missing output.
RunFailed(p) ==
  /\ rs[p].tool \in KnownTools
  /\ rs[p].found
  /\ rs[p].failure \in {"nonzero_exit", "timeout", "no_output"}

\* C16, as the claim states it: the triple returned after a non-zero exit, a
\* timeout or a missing output file is the triple returned when the
\* executable is not located: ratio 1.0, elapsed 0.0, no output path.
C16_FailureTripleIdentical ==
  \A p \in Returned : RunFailed(p) => rs[p].ret = UNAVAILABLE

\* C16, amended: after a non-zero exit, a timeout or a missing output file
\* the ratio (1.0) and the output path (none) are those returned when the
\* executable is not located, but the elapsed time is the time the call took
\* (60 seconds or more after a timeout), where a tool not located gives 0.0.
C16_FailureKeepsElapsed ==
  \A p \in Returned :
    /\ RunFailed(p) =>
         /\ rs[p].ret.ratio = UNAVAILABLE.ratio
         /\ rs[p].ret.path = UNAVAILABLE.path
         /\ rs[p].ret.elapsed = rs[p].elapsed
         /\ rs[p].failure = "timeout" => rs[p].ret.elapsed >= TIMEOUT
    /\ NotLocated(p) => rs[p].ret.elapsed = 0

\* A call whose tool exited non-zero has returned, with the time it took.
C16_Witness ==
  /\ RunFailed("s1")
  /\ rs["s1"].pc = "returned"
  /\ rs["s1"].failure = "nonzero_exit"
  /\ rs["s1"].ret.elapsed > UNAVAILABLE.elapsed

\* ---------------------------------------------------------------- C18
\* The calls that have returned an output path.
WithPath == {p \in Returned : rs[p].ret.path # "None"}

\* C18: overlapping calls of run_single_compression write one path for each
\* tool, compressed_output.<tool>, whoever calls: calls for the same tool
\* return the same path and write the same file, calls for different tools
\* return different paths and write different files. (That a call can return
\* the path while the file holds the other call's output, or a part of it,
\* is the state C18_Witness describes.)
C18_OnePathPerTool ==
  /\ \A p, q \in WithPath : (rs[p].tool = rs[q].tool) <=> (rs[p].ret.path = rs[q].ret.path)
  /\ \A t \in ToolIds :
       downloads[t].exists =>
         /\ rs[downloads[t].by].tool = t
         /\ InLog(rs[downloads[t].by], "copyfile_out")
  /\ \A p \in Calls :
       InLog(rs[p], "copyfile_out") => downloads[rs[p].tool].exists

\* Session s1 has returned compressed_output.<tool> while the file there is
\* what session s2 is writing for the same tool: opened, emptied, and not yet
\* filled with s2's output, which is not the size of s1's.
C18_Witness ==
  /\ rs["s1"].pc = "returned"
  /\ rs["s1"].ret.path # "None"
  /\ rs["s2"].tool = rs["s1"].tool
  /\ downloads[rs["s1"].tool].by = "s2"
  /\ ~downloads[rs["s1"].tool].whole
  /\ downloads[rs["s1"].tool].size # rs["s1"].comp_size

\* ---------------------------------------------------------------- C19
\* C19: run_full_benchmark skips the audio codec exactly when the input is
\* not a .wav file: for an input with the extension .wav, in any case of the
\* letters, it calls run_single_compression for flac and reports that call's
\* ratio.
C19_FlacRunForWav ==
  \A p \in Benchmarks :
    (IsWav(p) /\ fb[p].pc \in {"report", "returned"}) =>
      \E i \in 1..Len(fb[p].called) : fb[p].called[i] = "flac"

\* ---------------------------------------------------------------- C17
\* The file has passed both checks of get_prediction.
Validated == SizeChecked /\ gp.raised \notin
  {"ValueError: Invalid file type", "ValueError: File is too large"}

\* The statistics (slots 3..12) that the extractor fills in.
SlotsOf(extractor) ==
  CASE extractor = "get_text_features" -> {3}
    [] extractor = "get_pdf_features" -> {4}
    [] extractor = "get_image_features" -> 5..8
    [] extractor = "get_audio_features" -> 9..12
    [] extractor = "get_universal_features" -> {1, 2} \cup ((NSTATS + 1)..(NSTATS + NBYTES))

TypeExtractors ==
  {"get_text_features", "get_pdf_features", "get_image_features", "get_audio_features"}

\* The extractor cannot do its work on the file: the file cannot be read, the
\* library cannot parse it, or the library is not there.
Fails(extractor) ==
  \/ error_in(extractor, gp_in.file, gp_in.lib, caps) # "none"
  \/ extractor = "get_audio_features" /\ ~caps.PYDUB_AVAILABLE
  \/ extractor = "get_pdf_features" /\ ~caps.PYMUPDF_AVAILABLE

\* C17: for a file that passes validation and each of the five model names
\* get_prediction never raises and returns one of the tool labels, whichever
\* extractors fail; the features of a failed extractor are zero.
C17_AlwaysPredicts ==
  Validated =>
    /\ gp.pc # "raised" /\ gp.raised = "none"
    /\ gp.pc = "done" =>
         \E i \in 1..Len(LabelClasses) : gp.recommended_tool = LabelClasses[i]
    /\ gp.pc \in {"scale", "predict", "decode", "return", "done"} =>
         /\ Len(gp.loc.raw_features) = NSTATS + NBYTES
         /\ \A x \in TypeExtractors \cup {"get_universal_features"} :
              Fails(x) => \A k \in SlotsOf(x) : IsZero(gp.loc.raw_features[k])

\* A prediction has been returned for a picture that Image.open cannot make
\* sense of.
C17_Witness ==
  /\ gp.pc = "done"
  /\ ext_of(gp_in.file.path) \in ImageExts
  /\ gp_in.file.readable /\ getsize(gp_in.file) > 0
  /\ ~gp_in.lib.image.ok
  /\ \A k \in 5..8 : IsZero(gp.loc.raw_features[k])
  /\ ~IsZero(gp.loc.raw_features[1])

\* ---------------------------------------------------------------- C20
\* The slots of raw_features of the four type-specific groups.
TextSlots == {3}
PdfSlots == {4}
ImageSlots == 5..8
AudioSlots == 9..12
TypeGroups == {TextSlots, PdfSlots, ImageSlots, AudioSlots}

\* The group, and the extractor, of an extension's class.
GroupOfExt(e) ==
  IF e \in TextExts THEN TextSlots
  ELSE IF e = PdfExt THEN PdfSlots
  ELSE IF e \in ImageExts THEN ImageSlots
  ELSE IF e = WavExt THEN AudioSlots
  ELSE {}

ExtractorOfExt(e) ==
  IF e \in TextExts THEN {"get_text_features"}
  ELSE IF e = PdfExt THEN {"get_pdf_features"}
  ELSE IF e \in ImageExts THEN {"get_image_features"}
  ELSE IF e = WavExt THEN {"get_audio_features"}
  ELSE {}

NonZeroGroups(v) == {g \in TypeGroups : \E k \in g : ~IsZero(v[k])}

\* C20: in the vector compile_feature_vector returns at most one of the four
\* type-specific groups is non-zero, and it is the group of the class of the
\* file's extension (lower-cased, dots stripped); only that class's extractor
\* is called; for an extension of no class all ten type-specific slots are 0.
C20_DispatchExclusive ==
  cfv.called =>
    LET v == cfv.out.raw_features
        e == ext_of(feat_in.file.path)
    IN  /\ Cardinality(NonZeroGroups(v)) <= 1
        /\ NonZeroGroups(v) \subseteq {GroupOfExt(e)}
        /\ cfv.calls \cap TypeExtractors = ExtractorOfExt(e)
        /\ e \notin KnownExts => \A k \in 3..NSTATS : IsZero(v[k])

\* The vector of a.Wav, which the audio library decodes: the audio group is
\* non-zero and the text, PDF and image groups are zero.
C20_Witness ==
  /\ cfv.called
  /\ feat_in.file.path = <<"a", ".", "W", "a", "v">>
  /\ NonZeroGroups(cfv.out.raw_features) = {AudioSlots}
  /\ feat_in.lib.image.ok /\ feat_in.lib.pdf.ok

\* ---------------------------------------------------------------- C21
AlwaysKeys == {"File Type", "File Size (KB)", "Shannon Entropy"}

\* C21: the insights compile_feature_vector returns always hold File Type
\* (the extension in upper case), File Size (KB) and Shannon Entropy; they
\* hold Duration (s) exactly when the audio duration is not 0, Dimensions
\* exactly when the image width is not 0 and Page Count exactly when the page
\* count is not 0; they hold no other key.
C21_InsightKeys ==
  cfv.called =>
    LET v == cfv.out.raw_features
        ins == cfv.out.insights
    IN  /\ AlwaysKeys \subseteq DOMAIN ins
        /\ ins["File Type"] = upper(strip(splitext(feat_in.file.path)[2]))
        /\ "Duration (s)" \in DOMAIN ins <=> ~IsZero(v[9])
        /\ "Dimensions" \in DOMAIN ins <=> ~IsZero(v[5])
        /\ "Page Count" \in DOMAIN ins <=> ~IsZero(v[4])
        /\ DOMAIN ins \subseteq
             AlwaysKeys \cup {"Duration (s)", "Dimensions", "Page Count"}

\* The insights of an audio file of duration 0 and sample rate 8000: the
\* three keys that are always there, and no Duration.
C21_Witness ==
  /\ cfv.called
  /\ IsZero(cfv.out.raw_features[9])
  /\ ~IsZero(cfv.out.raw_features[10])
  /\ DOMAIN cfv.out.insights = AlwaysKeys
  /\ cfv.out.insights["File Type"] = <<"W", "A", "V">>

\* ---------------------------------------------------------------- C22
\* The benchmarks that have returned their report.
Reported == {p \in Sessions : fb[p].pc = "returned"}

\* C22: the table of the summary and the bars of the chart list the six
\* tools, each once, in order of non-increasing ratio, and when the
\* recommended tool is one of the six its bar, and no other, has the
\* distinguishing colour.
C22_SortedAndHighlighted ==
  \A p \in Reported :
    LET r == fb[p].report
        n == Len(all_tools)
    IN  /\ Len(r.order) = n /\ Len(r.colors) = n /\ Len(r.summary.rows) = n
        /\ {r.order[i] : i \in 1..n} = SixTools
        /\ \A i, j \in 1..n :
             i < j => ~Less(fb[p].ratios[r.order[i]], fb[p].ratios[r.order[j]])
        /\ \A i \in 1..n : r.summary.rows[i].tool = r.order[i]
        /\ \A i, j \in 1..n :
             i < j => r.summary.rows[i].ratio >= r.summary.rows[j].ratio
        /\ fb[p].recommended_tool \in SixTools =>
             \A i \in 1..n :
               (r.colors[i] = "#ff7f0e") <=> (r.order[i] = fb[p].recommended_tool)

\* A report in which the recommended tool, 7zip, is not the best: gzip comes
\* first, and the bar of 7zip, further down, is the coloured one.
C22_Witness ==
  /\ fb["s1"].pc = "returned"
  /\ fb["s1"].recommended_tool = "7zip"
  /\ fb["s1"].report.order[1] = "gzip"
  /\ \E k \in 2..5 :
       /\ fb["s1"].report.order[k] = "7zip"
       /\ fb["s1"].report.colors[k] = "#ff7f0e"
  /\ Less(fb["s1"].ratios["7zip"], fb["s1"].ratios["gzip"])

\* ---------------------------------------------------------------- C23
FixedOrder == <<"7zip", "zip", "winrar", "gzip", "bzip2", "flac">>

\* The tools have been called in the fixed order; a call in progress is the
\* last one made, and while the loop is between two tools, or is over, none
\* is in progress; the time reported is the time gone by since before the
\* first call.
SequentialNow ==
  \A p \in Benchmarks :
    LET b == fb[p]
    IN  /\ Len(b.called) <= Len(FixedOrder)
        /\ b.called = SubSeq(FixedOrder, 1, Len(b.called))
        /\ (rs[p].pc # "off" /\ rs[p].caller = "full") =>
             /\ b.pc = "wait"
             /\ rs[p].tool = b.called[Len(b.called)]
        /\ b.pc \in {"loop", "report", "returned"} => rs[p].pc = "off"
        /\ b.called = <<>> => b.elapsed = 0
        /\ b.pc = "returned" => b.report.brute_force_time = b.elapsed

\* A call is made only when no call is in progress, and the time since the
\* start grows by the whole time of each call when it is over, and by
\* nothing else.
SequentialStep ==
  \A p \in Sessions :
    /\ Len(fb'[p].called) # Len(fb[p].called) =>
         /\ Len(fb'[p].called) = Len(fb[p].called) + 1
         /\ rs[p].pc = "off"
         /\ rs'[p].pc = "enter"
    /\ fb'[p].elapsed = fb[p].elapsed +
         (IF fb[p].pc = "wait" /\ fb'[p].pc # "wait" THEN rs[p].elapsed ELSE 0)
    /\ (rs[p].caller = "full" /\ rs[p].pc = "run" /\ rs'[p].pc # "run") =>
         rs'[p].elapsed > rs[p].elapsed

\* C23: run_full_benchmark calls the tools one after the other in the order
\* 7zip, zip, winrar, gzip, bzip2, flac: a call starts only when the one
\* before has returned, at most one of its external processes runs at a
\* time, and the time it reports runs from before the first call to after
\* the last.
C23_Sequential == [](SequentialNow) /\ [][SequentialStep]_vars

\* A benchmark has returned after five calls, one of which timed out: the
\* time it reports is the timeout and the time of the four others.
C23_Witness ==
  /\ fb["s1"].pc = "returned"
  /\ Len(fb["s1"].called) = 5
  /\ fb["s1"].report.brute_force_time = TIMEOUT + 4

\* ---------------------------------------------------------------- C24
\* The model has been asked: gp.loc holds what it was given and what it said.
Predicted == gp.pc \in {"decode", "return", "done"}

\* k is the place, counted from 0, of the first largest value of the row.
IsArgMax(k, row) ==
  /\ k + 1 \in 1..Len(row)
  /\ \A j \in 1..Len(row) : row[j] <= row[k + 1]
  /\ \A j \in 1..k : row[j] < row[k + 1]

\* C24: get_prediction gives the models the scaled vector, never the raw
\* one. For "DL-ML Hybrid" the scaled vector goes through the shared
\* extractor up to its second-to-last layer and what the secondary classifier
\* returns is the class index as it is; for "Wide & Deep" the model is given
\* the scaled vector and its first 12 values, and the class is the arg-max;
\* for the three other names the model is given the scaled vector alone, and
\* the class is the arg-max; the label encoder turns the class into the tool.
C24_ModelDispatch ==
  Predicted =>
    LET l == gp.loc
        sf == l.scaled_features
        name == gp_in.model_name
    IN  /\ sf.scaled /\ sf.x = l.raw_features /\ sf.cols = 1..(NSTATS + NBYTES)
        /\ \A i \in 1..Len(l.model_inputs) : l.model_inputs[i].scaled
        /\ name = "DL-ML Hybrid" =>
             /\ Len(l.model_inputs) = 1
             /\ l.model_inputs[1].of = "HYBRID_EXTRACTOR"
             /\ l.model_inputs[1].layer = 0 - 2
             /\ l.model_inputs[1].input = sf
             /\ l.model_output = <<l.pred_enc>>
             /\ \E i \in 1..(Len(gp.log) - 1) :
                  /\ gp.log[i] = "HYBRID_EXTRACTOR.predict"
                  /\ gp.log[i + 1] = "model.predict"
        /\ name = "Wide & Deep" =>
             /\ Len(l.model_inputs) = 2
             /\ l.model_inputs[1] = sf
             /\ l.model_inputs[2].cols = 1..12
             /\ \A k \in 1..12 : l.model_inputs[2].x[k] = sf.x[k]
             /\ IsArgMax(l.pred_enc, l.model_output)
        /\ name \notin {"DL-ML Hybrid", "Wide & Deep"} =>
             /\ l.model_inputs = <<sf>>
             /\ IsArgMax(l.pred_enc, l.model_output)
        /\ gp.pc \in {"return", "done"} =>
             /\ gp.recommended_tool = LabelClasses[l.pred_enc + 1]
             /\ gp.log[Len(gp.log)] = "LABEL_ENCODER.inverse_transform"

\* "Wide & Deep" has returned its recommendation for a file that is not
\* empty: the class with the largest probability, which is not the first.
C24_Witness ==
  /\ gp.pc = "done"
  /\ gp_in.model_name = "Wide & Deep"
  /\ Len(gp.loc.model_inputs) = 2
  /\ ~IsZero(gp.loc.raw_features[1])
  /\ gp.loc.pred_enc = 3
  /\ gp.recommended_tool = LabelClasses[4]

\* ---------------------------------------------------------------- C26
\* What gzip and bzip2 have replaced by their output is the copy in the
\* temporary directory; the caller's file is where it was.
CopyReplaced ==
  \A p \in Calls :
    (tmpdir[p].out_exists /\ rs[p].tool \in InPlaceTools) =>
      /\ ~tmpdir[p].input
      /\ disk[p].exists
      /\ getsize(disk[p]) = rs[p].original_size

\* C26: no step of run_single_compression, called by the application or by
\* run_full_benchmark, for any tool, changes the caller's input file: its
\* path, its contents and its size stay what they were; gzip and bzip2
\* replace the copy in the temporary directory.
C26_InputUntouched == [](CopyReplaced) /\ [][disk' = disk]_vars

\* gzip has run on a file of two bytes and has replaced the copy in the
\* temporary directory by its output; the caller's file has its two bytes.
C26_Witness ==
  /\ rs["s1"].tool = "gzip"
  /\ rs["s1"].pc = "measure"
  /\ tmpdir["s1"].out_exists /\ ~tmpdir["s1"].input
  /\ disk["s1"].exists /\ getsize(disk["s1"]) = 2

\* ---------------------------------------------------------------- C27
\* The call has a file that is not empty and is past the lookup of the
\* executable.
PastLookup(p) ==
  /\ disk[p].exists /\ getsize(disk[p]) > 0
  /\ rs[p].pc \notin {"enter", "lookup"}

\* C27: for a file that is not empty, run_single_compression with a tool
\* that is not one of the six of COMPRESSOR_PATHS raises TypeError from the
\* lookup of the executable, before the try block: nothing is returned, no
\* temporary directory is made, no process is started; with one of the six
\* it never raises.
C27_UnknownToolRaises ==
  \A p \in Calls :
    PastLookup(p) =>
      IF rs[p].tool \in {"7zip", "zip", "winrar", "gzip", "bzip2", "flac"}
      THEN rs[p].pc # "raised" /\ rs[p].raised = "none"
      ELSE /\ rs[p].pc = "raised"
           /\ rs[p].raised = "TypeError"
           /\ rs[p].failure = "none"
           /\ rs[p].log = <<"getsize", "which">>
           /\ ~tmpdir[p].exists
           /\ \A t \in ToolIds : ~downloads[t].exists

\* The application's call with the tool "lz4" on a file of one byte has
\* raised.
C27_Witness ==
  /\ rs["s1"].tool = "lz4"
  /\ rs["s1"].caller = "app"
  /\ getsize(disk["s1"]) = 1
  /\ rs["s1"].pc = "raised"
  /\ rs["s1"].raised = "TypeError"

\* ---------------------------------------------------------------- C25
\* A call never lasts longer than the timeout, a benchmark makes six calls at
\* most, and a call ends by raising only for a tool that is none of the six
\* (C27).
Bounded ==
  \A p \in Sessions :
    /\ rs[p].elapsed <= TIMEOUT
    /\ Len(fb[p].called) <= 6
    /\ rs[p].pc = "raised" => rs[p].tool \notin KnownTools
    /\ fb[p].pc # "raised"

\* No call is under way: each call of run_single_compression and of
\* run_full_benchmark that began has come back to its caller.
AllEnded ==
  \A p \in Sessions :
    /\ rs[p].pc \in {"off", "returned", "raised"}
    /\ fb[p].pc \in {"off", "returned"}

\* C25: every call of run_single_compression comes back to its caller: the
\* process exits or is killed after 60 seconds, so the call returns (or, for
\* a tool that is none of the six, raises at the lookup); run_full_benchmark
\* returns after six calls of run_single_compression at most. From some
\* moment on no call is under way: none blocks its caller for ever.
C25_Terminates == [](Bounded) /\ <>[](AllEnded)

\* A call whose process was killed at the timeout has returned, 60 seconds
\* after it began.
C25_Witness ==
  /\ rs["s1"].pc = "returned"
  /\ rs["s1"].failure = "timeout"
  /\ rs["s1"].elapsed = TIMEOUT
  /\ InLog(rs["s1"], "subprocess.run")

====
